---------------------------- MODULE Spec2Model ----------------------------
(***************************************************************************)
(* Verification model of yam-toolkit: yamshuf (k-mer shuffling) and        *)
(* yamscan (motif scanning).  Arrays are functions over 0..n-1 so that     *)
(* indices are the C indices.                                              *)
(***************************************************************************)
EXTENDS Integers, Sequences, FiniteSets, TLC

(***************************************************************************)
(* Bounds of the yamshuf model.                                            *)
(***************************************************************************)
MinLen == 3
MaxLen == 6
MaxK == 2

Alphabet == {"A", "C", "t"}

VARIABLES
  \* ---- yamshuf ----
  shuf_pc,         \* position in main / shuffle_euler
  k,               \* args.k
  is_dna,          \* 1 - args.rna_out
  use_linear,      \* args.use_linear
  seq_in,          \* the sequence as read by kseq_read
  seq,             \* the buffer shuffled in place
  kmer_tab,        \* k-mer counts, 5^k entries
  invalid_vertex,  \* 5^(k-1) flags
  euler_path,      \* 5^(k-1) exit edges
  next_index,      \* 5^(k-1) vertex-from-edge lookup
  last_edge,       \* local of shuffle_euler
  loop_i,          \* loop counter i of the current loop of shuffle_euler
  loop_u,          \* vertex u of the arborescence loop
  written,         \* what write_seq printed ("none" before)
  \* ---- yamscan ----
  argv,            \* the command line and the files it names (never changes)
  main_pc,         \* position of the main thread in main
  args,            \* the global args
  motifs,          \* motifs[0 .. motif_info.n - 1], as a sequence
  seq_names,       \* seq_names[], as a sequence
  seq_sizes,       \* seq_sizes[], as a sequence
  seqs,            \* seqs[] (in memory), or the kseq buffer in low-mem mode
  bed,             \* the BED regions with their seq_indices
  cdf,             \* cdf[thread]
  cdf_real_size,   \* cdf_real_size[thread]
  worker_pc,       \* position of each worker thread in scan_sub_process
  worker_i,        \* loop index i of each worker
  worker_j,        \* loop index j of each worker
  pending,         \* records of the running score_seq call not yet printed
  loop_m,          \* loop index of the main thread (motif or thread number)
  loop_s,          \* loop index j of the low-mem loop
  out,             \* files.o
  evaluated,       \* history: the windows scored so far
  freed,           \* the shared tables have been freed
  exit_code,       \* "none" while the process runs
  pb_counter,
  pb_lock,         \* holder of the mutex, or "free"
  stderr_log,      \* the diagnostics written to stderr, as a set of records
  \* ---- yamscan, reading the background and the motifs ----
  load_argv,       \* -b, and the file of -m or the string of -1 (never changes)
  load_pc,         \* position of main between parse_user_bkg and load_motifs
  line_num,        \* lines of the motif file read so far
  load_locals,     \* the locals of the running read_* function
  read_motifs,     \* motifs[0 .. motif_info.n - 1] as the readers fill them
  load_bkg,        \* args.bkg as a fraction: num[i] / den
  load_stderr,     \* the lines written to stderr, in order
  load_exit,       \* "none" while the process runs
  load_ub          \* the undefined operations executed so far

varsShuf == <<shuf_pc, k, is_dna, use_linear, seq_in, seq, kmer_tab, invalid_vertex,
              euler_path, next_index, last_edge, loop_i, loop_u, written>>

varsScan == <<argv, main_pc, args, motifs, seq_names, seq_sizes, seqs, bed, cdf,
              cdf_real_size, worker_pc, worker_i, worker_j, pending, loop_m,
              loop_s, out, evaluated, freed, exit_code, pb_counter, pb_lock,
              stderr_log>>

varsLoad == <<load_argv, load_pc, line_num, load_locals, read_motifs, load_bkg,
              load_stderr, load_exit, load_ub>>

vars == <<varsShuf, varsScan, varsLoad>>

\* yamshuf does not run yamscan, and conversely
ScanIdle ==
  /\ argv = <<>> /\ main_pc = "idle" /\ args = <<>> /\ motifs = <<>>
  /\ seq_names = <<>> /\ seq_sizes = <<>> /\ seqs = <<>> /\ bed = <<>>
  /\ cdf = <<>> /\ cdf_real_size = <<>> /\ worker_pc = <<>> /\ worker_i = <<>>
  /\ worker_j = <<>> /\ pending = <<>> /\ loop_m = 0 /\ loop_s = 0
  /\ out = <<>> /\ evaluated = {} /\ freed = FALSE /\ exit_code = "none"
  /\ pb_counter = 0 /\ pb_lock = "free" /\ stderr_log = {}

LoadIdle ==
  /\ load_argv = <<>> /\ load_pc = "idle" /\ line_num = 0 /\ load_locals = <<>>
  /\ read_motifs = <<>> /\ load_bkg = <<>> /\ load_stderr = <<>>
  /\ load_exit = "none" /\ load_ub = {}

ShufIdle ==
  /\ shuf_pc = "idle" /\ k = 0 /\ is_dna = TRUE /\ use_linear = FALSE
  /\ seq_in = <<>> /\ seq = <<>>
  /\ kmer_tab = <<>> /\ invalid_vertex = <<>> /\ euler_path = <<>>
  /\ next_index = <<>> /\ last_edge = 0 /\ loop_i = 0 /\ loop_u = 0
  /\ written = "none"

(***************************************************************************)
(* yamshuf: alphabet codec and k-mer tables                                *)
(***************************************************************************)
RECURSIVE pow5(_)
pow5(n) == IF n = 0 THEN 1 ELSE 5 * pow5(n - 1)

char2index(c) ==
  CASE c \in {"A", "a"} -> 0
    [] c \in {"C", "c"} -> 1
    [] c \in {"G", "g"} -> 2
    [] c \in {"T", "t", "U", "u"} -> 3
    [] OTHER -> 4

index2dna == [i \in 0..4 |-> <<"A", "C", "G", "T", "N">>[i + 1]]
index2rna == [i \in 0..4 |-> <<"A", "C", "G", "U", "N">>[i + 1]]

Size(s) == Cardinality(DOMAIN s)

\* kmer = sum over j of pow5[kk-1-j] * char2index[s[offset + j]]
RECURSIVE chars2kmerFrom(_, _, _, _)
chars2kmerFrom(s, kk, offset, j) ==
  IF j = kk THEN 0
  ELSE pow5(kk - 1 - j) * char2index(s[offset + j])
       + chars2kmerFrom(s, kk, offset, j + 1)

chars2kmer(s, kk, offset) == chars2kmerFrom(s, kk, offset, 0)

\* kmer_tab after ERASE_ARRAY and count_kmers
count_kmers(s, size, kk) ==
  [e \in 0..(pow5(kk) - 1) |->
     Cardinality({i \in 0..(size - kk) : chars2kmer(s, kk, i) = e})]

COUNT_EDGES(offset, tab) ==
  tab[offset] + tab[offset + 1] + tab[offset + 2] + tab[offset + 3] + tab[offset + 4]

\* the letters cumsum_and_pick_next_letter can return: r ranges over
\* 0..k4-1, so exactly the letters with a non-zero count
cumsum_and_pick_next_letter(tab, offset) ==
  {b \in 0..4 : tab[offset + b] > 0}


(***************************************************************************)
(* yamshuf: main loop dispatch and shuffle_euler                           *)
(***************************************************************************)
ShufInputs ==
  UNION {[0..(n - 1) -> Alphabet] : n \in MinLen..MaxLen}

InitShuf ==
  /\ shuf_pc = "read"
  /\ k \in 1..MaxK
  /\ is_dna \in BOOLEAN
  /\ use_linear \in BOOLEAN
  /\ seq_in \in ShufInputs
  /\ seq = seq_in
  /\ kmer_tab = <<>>
  /\ invalid_vertex = <<>>
  /\ euler_path = <<>>
  /\ next_index = <<>>
  /\ last_edge = 0
  /\ loop_i = 0
  /\ loop_u = 0
  /\ written = "none"
  /\ ScanIdle
  /\ LoadIdle

index2xna == IF is_dna THEN index2dna ELSE index2rna

\* main: a sequence shorter than 2k is neither shuffled nor written
ShufTooShort ==
  /\ shuf_pc = "read"
  /\ Size(seq) < k * 2
  /\ shuf_pc' = "skipped"
  /\ UNCHANGED <<k, is_dna, use_linear, seq_in, seq, kmer_tab, invalid_vertex, euler_path,
                 next_index, last_edge, loop_i, loop_u, written>>
  /\ UNCHANGED <<varsScan, varsLoad>>

\* next_index as prefilled for k > 2; all zero (ERASE_ARRAY) for k = 2
next_index_fill(kk) ==
  [i \in 0..(pow5(kk - 1) - 1) |->
     IF kk > 2 THEN (i % pow5(kk - 2)) * 5 ELSE 0]

\* main erases the tables and counts the k-mers; shuffle_euler up to the
\* start of the arborescence loop
EulerBegin ==
  /\ shuf_pc = "read"
  /\ Size(seq) >= k * 2
  /\ k # 1
  /\ ~use_linear
  /\ LET size == Size(seq)
         seq1 == [i \in DOMAIN seq |->
                    IF i < k - 1 \/ i = size - 1
                      THEN index2xna[char2index(seq[i])] ELSE seq[i]]
         tab0 == count_kmers(seq, size, k)
         le   == chars2kmer(seq1, k, size - k)
         tab1 == [tab0 EXCEPT ![le] = @ - 1]
         fin  == chars2kmer(seq1, k - 1, size - k + 1)
     IN /\ seq' = seq1
        /\ last_edge' = le
        /\ kmer_tab' = tab1
        /\ invalid_vertex' =
             [i \in 0..(pow5(k - 1) - 1) |->
                IF COUNT_EDGES(i * 5, tab1) = 0 \/ i = fin THEN 1 ELSE 0]
        /\ euler_path' = [i \in 0..(pow5(k - 1) - 1) |-> 0]
        /\ next_index' = next_index_fill(k)
  /\ loop_i' = 0
  /\ loop_u' = 0
  /\ shuf_pc' = "arborescence"
  /\ UNCHANGED <<k, is_dna, use_linear, seq_in, written>>
  /\ UNCHANGED <<varsScan, varsLoad>>

\* one iteration of the first while loop: a random exit edge for u
EulerPick ==
  /\ shuf_pc = "arborescence"
  /\ invalid_vertex[loop_u] = 0
  /\ \E b \in cumsum_and_pick_next_letter(kmer_tab, loop_u * 5) :
       /\ euler_path' = [euler_path EXCEPT ![loop_u] = b]
       /\ loop_u' = b + next_index[loop_u]
  /\ UNCHANGED <<shuf_pc, k, is_dna, use_linear, seq_in, seq, kmer_tab, invalid_vertex,
                 next_index, last_edge, loop_i, written>>
  /\ UNCHANGED <<varsScan, varsLoad>>

\* the second while loop: every vertex on the walk from i becomes routed
RECURSIVE mark_walk(_, _, _, _)
mark_walk(inv, path, nxt, u) ==
  IF inv[u] # 0 THEN inv
  ELSE mark_walk([inv EXCEPT ![u] = 1], path, nxt, path[u] + nxt[u])

EulerMark ==
  /\ shuf_pc = "arborescence"
  /\ invalid_vertex[loop_u] # 0
  /\ invalid_vertex' = mark_walk(invalid_vertex, euler_path, next_index, loop_i)
  /\ IF loop_i + 1 < pow5(k - 1)
       THEN /\ loop_i' = loop_i + 1
            /\ loop_u' = loop_i + 1
            /\ shuf_pc' = "arborescence"
       ELSE /\ loop_i' = 0
            /\ loop_u' = 0
            /\ shuf_pc' = "reserve"
  /\ UNCHANGED <<k, is_dna, use_linear, seq_in, seq, kmer_tab, euler_path, next_index,
                 last_edge, written>>
  /\ UNCHANGED <<varsScan, varsLoad>>

\* "Remove reserved edges from pool", the whole loop
RECURSIVE remove_reserved(_, _, _, _, _)
remove_reserved(tab, path, le, n, i) ==
  IF i = n THEN tab
  ELSE LET edge == i * 5 + path[i]
       IN remove_reserved(
            IF edge # le /\ tab[edge] # 0 THEN [tab EXCEPT ![edge] = @ - 1] ELSE tab,
            path, le, n, i + 1)

EulerReserve ==
  /\ shuf_pc = "reserve"
  /\ kmer_tab' = remove_reserved(kmer_tab, euler_path, last_edge, pow5(k - 1), 0)
  /\ loop_i' = k - 2
  /\ shuf_pc' = "trail"
  /\ UNCHANGED <<k, is_dna, use_linear, seq_in, seq, invalid_vertex, euler_path, next_index,
                 last_edge, loop_u, written>>
  /\ UNCHANGED <<varsScan, varsLoad>>

\* one iteration of the trail loop
EulerStep ==
  /\ shuf_pc = "trail"
  /\ loop_i < Size(seq) - 2
  /\ LET current_vertex == chars2kmer(seq, k - 1, loop_i - k + 2)
         kmer_index == current_vertex * 5
     IN IF COUNT_EDGES(kmer_index, kmer_tab) # 0
          THEN \E next_edge \in cumsum_and_pick_next_letter(kmer_tab, kmer_index) :
                 /\ kmer_tab' = [kmer_tab EXCEPT ![next_edge + kmer_index] = @ - 1]
                 /\ seq' = [seq EXCEPT ![loop_i + 1] = index2xna[next_edge]]
          ELSE /\ kmer_tab' = kmer_tab
               /\ seq' = [seq EXCEPT ![loop_i + 1] = index2xna[euler_path[current_vertex]]]
  /\ loop_i' = loop_i + 1
  /\ UNCHANGED <<shuf_pc, k, is_dna, use_linear, seq_in, invalid_vertex, euler_path,
                 next_index, last_edge, loop_u, written>>
  /\ UNCHANGED <<varsScan, varsLoad>>

\* shuffle_euler returns 0 and main calls write_seq
EulerWrite ==
  /\ shuf_pc = "trail"
  /\ loop_i >= Size(seq) - 2
  /\ written' = seq
  /\ shuf_pc' = "done"
  /\ UNCHANGED <<k, is_dna, use_linear, seq_in, seq, kmer_tab, invalid_vertex, euler_path,
                 next_index, last_edge, loop_i, loop_u>>
  /\ UNCHANGED <<varsScan, varsLoad>>

\* the values kr_rand_r can return, as far as the remainders taken of them
\* can tell
RandValues == 0..MaxLen

swap(s, i, j) == [s EXCEPT ![i] = s[j], ![j] = s[i]]

\* the positions step i of shuffle_fisher_yates can swap position i with:
\* i + kr_rand_r(&krng) % (l - i), where l = len - 1
fisher_yates_partners(i, len) == {i + (r % ((len - 1) - i)) : r \in RandValues}

\* main, args.k == 1: shuffle_fisher_yates is entered
FisherYatesBegin ==
  /\ shuf_pc = "read"
  /\ Size(seq) >= k * 2
  /\ k = 1
  /\ loop_i' = 0
  /\ shuf_pc' = "fisher_yates"
  /\ UNCHANGED <<k, is_dna, use_linear, seq_in, seq, kmer_tab, invalid_vertex, euler_path,
                 next_index, last_edge, loop_u, written>>
  /\ UNCHANGED <<varsScan, varsLoad>>

\* one iteration of the loop of shuffle_fisher_yates
FisherYatesSwap ==
  /\ shuf_pc = "fisher_yates"
  /\ loop_i < Size(seq) - 1
  /\ \E j \in fisher_yates_partners(loop_i, Size(seq)) :
       seq' = swap(seq, loop_i, j)
  /\ loop_i' = loop_i + 1
  /\ UNCHANGED <<shuf_pc, k, is_dna, use_linear, seq_in, kmer_tab, invalid_vertex,
                 euler_path, next_index, last_edge, loop_u, written>>
  /\ UNCHANGED <<varsScan, varsLoad>>

\* the loop is over: write_seq
FisherYatesWrite ==
  /\ shuf_pc = "fisher_yates"
  /\ loop_i >= Size(seq) - 1
  /\ written' = seq
  /\ shuf_pc' = "done"
  /\ UNCHANGED <<k, is_dna, use_linear, seq_in, seq, kmer_tab, invalid_vertex, euler_path,
                 next_index, last_edge, loop_i, loop_u>>
  /\ UNCHANGED <<varsScan, varsLoad>>

\* swap_k: the characters i..i+kk-1 change places with j..j+kk-1, one swap
\* after the other
RECURSIVE swap_k_from(_, _, _, _, _)
swap_k_from(s, i, j, kk, a) ==
  IF a >= kk THEN s ELSE swap_k_from(swap(s, i + a, j + a), i, j, kk, a + 1)

swap_k_mutant(s, i, j, kk) == swap(s, i, j)

swap_k(s, i, j, kk) == swap_k_from(s, i, j, kk, 0)

\* the indices of seq that swap_k(seq, i, j, kk) reads and writes
swap_k_indices(i, j, kk) ==
  {i + a : a \in 0..(kk - 1)} \cup {j + a : a \in 0..(kk - 1)}

\* the positions step i of shuffle_linear can hand to swap_k as j:
\* r = kr_rand_r(&krng) % (size - 2 * k + 1 - i), j = i + k + r - r % k
linear_partners(i, size, kk) ==
  {i + kk + (r % (size - 2 * kk + 1 - i))
     - ((r % (size - 2 * kk + 1 - i)) % kk) : r \in RandValues}

\* main, args.k > 1 with -l: shuffle_linear is entered
LinearBegin ==
  /\ shuf_pc = "read"
  /\ Size(seq) >= k * 2
  /\ k # 1
  /\ use_linear
  /\ loop_i' = 0
  /\ shuf_pc' = "linear"
  /\ UNCHANGED <<k, is_dna, use_linear, seq_in, seq, kmer_tab, invalid_vertex, euler_path,
                 next_index, last_edge, loop_u, written>>
  /\ UNCHANGED <<varsScan, varsLoad>>

\* one iteration of the loop of shuffle_linear; an index outside the buffer
\* is undefined behaviour, which shows as a crash
LinearSwap ==
  /\ shuf_pc = "linear"
  /\ loop_i < Size(seq) - 2 * k + 1
  /\ \E j \in linear_partners(loop_i, Size(seq), k) :
       IF swap_k_indices(loop_i, j, k) \subseteq DOMAIN seq
         THEN /\ seq' = swap_k(seq, loop_i, j, k)
              /\ loop_i' = loop_i + k
              /\ UNCHANGED shuf_pc
         ELSE /\ shuf_pc' = "crashed"
              /\ UNCHANGED <<seq, loop_i>>
  /\ UNCHANGED <<k, is_dna, use_linear, seq_in, kmer_tab, invalid_vertex,
                 euler_path, next_index, last_edge, loop_u, written>>
  /\ UNCHANGED <<varsScan, varsLoad>>

\* the loop is over: write_seq
LinearWrite ==
  /\ shuf_pc = "linear"
  /\ loop_i >= Size(seq) - 2 * k + 1
  /\ written' = seq
  /\ shuf_pc' = "done"
  /\ UNCHANGED <<k, is_dna, use_linear, seq_in, seq, kmer_tab, invalid_vertex, euler_path,
                 next_index, last_edge, loop_i, loop_u>>
  /\ UNCHANGED <<varsScan, varsLoad>>

NextShuf ==
  \/ ShufTooShort
  \/ FisherYatesBegin
  \/ FisherYatesSwap
  \/ FisherYatesWrite
  \/ LinearBegin
  \/ LinearSwap
  \/ LinearWrite
  \/ EulerBegin
  \/ EulerPick
  \/ EulerMark
  \/ EulerReserve
  \/ EulerStep
  \/ EulerWrite

SpecShuf == InitShuf /\ [][NextShuf]_vars

(***************************************************************************)
(* yamscan: motifs, score distribution and threshold                       *)
(*                                                                         *)
(* Doubles are fixed-point integers: the double x is the integer x * ONE.  *)
(* Every probability of the model is a multiple of 2^-20, so that the      *)
(* program's double arithmetic on them is exact and equals the integer     *)
(* arithmetic here.  Background values are kept in eighths.               *)
(***************************************************************************)
ONE == 1048576
INT_MAX == 2147483647
AMBIGUITY_SCORE == -10000000
MAX_CDF_SIZE == 2097152

\* init_motif, then the parser's set_score calls: rows[pos + 1] holds the
\* four scores of position pos (A, C, G, T)
init_motif(name, rows) ==
  [name |-> name,
   size |-> Len(rows),
   pwm |-> [x \in 0..(Len(rows) * 5 - 1) |->
              IF x % 5 = 4 THEN AMBIGUITY_SCORE ELSE rows[(x \div 5) + 1][(x % 5) + 1]],
   pwm_rc |-> [x \in 0..(Len(rows) * 5 - 1) |->
              IF x % 5 = 4 THEN AMBIGUITY_SCORE ELSE 0],
   threshold |-> 0, max_score |-> 0, min_score |-> 0,
   min |-> 0, max |-> 0, cdf_size |-> 0, cdf_max |-> 0, cdf_offset |-> 0,
   thread |-> 0]

get_score_i(motif, i, pos) == motif.pwm[i + pos * 5]

MaxOf(S) == CHOOSE x \in S : \A y \in S : y <= x
MinOf(S) == CHOOSE x \in S : \A y \in S : x <= y

\* both start from 0, so max >= 0 and min <= 0
get_pwm_max(motif) ==
  MaxOf({0} \cup {get_score_i(motif, let, pos) :
                    let \in 0..3, pos \in 0..(motif.size - 1)})

get_pwm_min(motif) ==
  MinOf({0} \cup {get_score_i(motif, let, pos) :
                    let \in 0..3, pos \in 0..(motif.size - 1)})

fill_pwm_rc_mutant(motif) ==
  [x \in DOMAIN motif.pwm |->
     IF x % 5 = 4 THEN motif.pwm_rc[x]
     ELSE motif.pwm[(3 - (x % 5)) + (x \div 5) * 5]]

\* pwm_rc[b at size-1-pos] = pwm[complement of b at pos]
fill_pwm_rc(motif) ==
  [x \in DOMAIN motif.pwm |->
     IF x % 5 = 4 THEN motif.pwm_rc[x]
     ELSE motif.pwm[(3 - (x % 5)) + (motif.size - 1 - (x \div 5)) * 5]]

complete_motif(motif) ==
  LET mn == get_pwm_min(motif)
      mx == get_pwm_max(motif)
  IN [motif EXCEPT !.min = mn,
                   !.max = mx,
                   !.cdf_offset = mn * motif.size,
                   !.pwm_rc = fill_pwm_rc(motif),
                   !.cdf_max = mx - mn,
                   !.cdf_size = motif.size * (mx - mn) + 1]

\* the resolution of the integer scores: PWM_INT_MULTIPLIER of the code is
\* 1000, the model multiplies log2 by ScoreScale
ScoreScale == 1

\* 1000 * log2(x / 0.25), truncated, for x = (p * nsites + pseudocount / 4)
\* / (nsites + pseudocount) with nsites = 1000, pseudocount = 1 and p in
\* thousandths
log2_ratio(p) ==
  CASE p = 0 -> -9967
    [] p = 250 -> 0
    [] p = 333 -> 413
    [] p = 500 -> 999
    [] p = 1000 -> 1998

calc_score_mutant(p) == 0

\* (int) (log2(x / bkg_i) * PWM_INT_MULTIPLIER): the cast truncates towards 0
calc_score(p) ==
  IF log2_ratio(p) < 0
    THEN -((-log2_ratio(p) * ScoreScale) \div 1000)
    ELSE (log2_ratio(p) * ScoreScale) \div 1000

\* consensus2index: -1 for a letter that is no IUPAC code
consensus2index(c) ==
  CASE c \in {"A", "a"} -> 0
    [] c \in {"C", "c"} -> 1
    [] c \in {"G", "g"} -> 2
    [] c \in {"T", "t", "U", "u"} -> 3
    [] c \in {"Y", "y"} -> 4
    [] c \in {"R", "r"} -> 5
    [] c \in {"W", "w"} -> 6
    [] c \in {"S", "s"} -> 7
    [] c \in {"K", "k"} -> 8
    [] c \in {"M", "m"} -> 9
    [] c \in {"D", "d"} -> 10
    [] c \in {"V", "v"} -> 11
    [] c \in {"H", "h"} -> 12
    [] c \in {"B", "b"} -> 13
    [] c \in {"N", "n"} -> 14
    [] OTHER -> -1

\* consensus2probs, in thousandths, one row per IUPAC code
consensus2probs ==
  << <<1000, 0, 0, 0>>, <<0, 1000, 0, 0>>, <<0, 0, 1000, 0>>, <<0, 0, 0, 1000>>,
     <<0, 500, 0, 500>>, <<500, 0, 500, 0>>, <<500, 0, 0, 500>>,
     <<0, 500, 500, 0>>, <<0, 0, 500, 500>>, <<500, 500, 0, 0>>,
     <<333, 0, 333, 333>>, <<333, 333, 333, 0>>, <<333, 333, 0, 333>>,
     <<0, 333, 333, 333>>, <<250, 250, 250, 250>> >>

\* add_consensus_motif: the motif is named after the consensus, and an
\* unknown letter is fatal
add_consensus_motif(consensus) ==
  LET known == \A pos \in 1..Len(consensus.letters) :
                 consensus2index(consensus.letters[pos]) # -1
  IN [ok |-> known,
      motif |->
        IF known
          THEN complete_motif(init_motif(consensus.name,
                 [pos \in 1..Len(consensus.letters) |->
                    [b \in 1..4 |->
                       calc_score(consensus2probs[
                         consensus2index(consensus.letters[pos]) + 1][b])]]))
          ELSE init_motif(consensus.name, <<>>)]

\* f[lo] + ... + f[hi], by halves
RECURSIVE RangeSum(_, _, _)
RangeSum(f, lo, hi) ==
  IF lo > hi THEN 0
  ELSE IF lo = hi THEN f[lo]
  ELSE LET mid == (lo + hi) \div 2
       IN RangeSum(f, lo, mid) + RangeSum(f, mid + 1, hi)

SumTo(f, n) == RangeSum(f, 0, n)

\* f itself, tabulated once instead of evaluated at every application
Tabulated(f) == IF f = f THEN f ELSE f

\* tmp_pdf[k] * args.bkg[j], bkg in eighths
bkg_mul(x, w) == (x * w) \div 8

fill_cdf_pos_mutant(motif, bkg, c, i) ==
  LET max_step == i * motif.cdf_max
      s(j) == get_score_i(motif, j, i) - motif.min
      add(x, j) == IF x - s(j) >= 0 /\ x - s(j) <= max_step
                     THEN bkg_mul(c[x - s(j)], bkg[j]) ELSE 0
  IN [x \in DOMAIN c |-> c[x] + add(x, 0) + add(x, 1) + add(x, 2) + add(x, 3)]

\* one iteration i of the position loop of fill_cdf
fill_cdf_pos(motif, bkg, c, i) ==
  LET max_step == i * motif.cdf_max
      tmp == c
      s(j) == get_score_i(motif, j, i) - motif.min
      add(x, j) == IF x - s(j) >= 0 /\ x - s(j) <= max_step
                     THEN bkg_mul(tmp[x - s(j)], bkg[j]) ELSE 0
  IN [x \in DOMAIN c |->
        (IF x < max_step + motif.cdf_max + 1 THEN 0 ELSE c[x])
        + add(x, 0) + add(x, 1) + add(x, 2) + add(x, 3)]

RECURSIVE fill_cdf_loop(_, _, _, _)
fill_cdf_loop(motif, bkg, c, i) ==
  IF i = motif.size THEN c
  ELSE fill_cdf_loop(motif, bkg, Tabulated(fill_cdf_pos(motif, bkg, c, i)), i + 1)

cdf_cumsum_mutant(c, i) == [x \in DOMAIN c |-> RangeSum(c, 0, x)]

\* the reverse cumulative sum: cdf[i] += cdf[i + 1] from cdf_size - 2 down
cdf_cumsum(c, i) ==
  [x \in DOMAIN c |-> IF x <= i THEN RangeSum(c, x, i + 1) ELSE c[x]]

\* the PDF after the position loop and the renormalisation
fill_pdf(motif, bkg) ==
  LET c0 == [x \in 0..(motif.cdf_size - 1) |-> ONE]
      pdf == fill_cdf_loop(motif, bkg, c0, 0)
      pdf_sum == SumTo(pdf, motif.cdf_size - 1)
      off == IF pdf_sum > ONE THEN pdf_sum - ONE ELSE ONE - pdf_sum
  IN IF off > ONE \div 10000
       THEN Tabulated([x \in DOMAIN pdf |-> (pdf[x] * 1024) \div (pdf_sum \div 1024)])
       ELSE pdf

\* the contents of cdf[motif->thread] when fill_cdf returns
fill_cdf(motif, bkg) ==
  Tabulated(cdf_cumsum(fill_pdf(motif, bkg), motif.cdf_size - 2))

score2pval(motif, c, score) == c[score - motif.cdf_offset]

RECURSIVE max_min_score(_, _, _)
max_min_score(motif, i, acc) ==
  IF i = motif.size THEN acc
  ELSE LET col == {get_score_i(motif, j, i) : j \in 0..3}
       IN max_min_score(motif, i + 1, <<acc[1] + MaxOf(col), acc[2] + MinOf(col)>>)

exceeds_pvalue_mutant(min_pvalue, pvalue) == min_pvalue > pvalue

\* min_pvalue / args.pvalue > 1.0001, on fixed-point values
exceeds_pvalue(min_pvalue, pvalue) ==
  min_pvalue > pvalue /\ min_pvalue - pvalue > pvalue \div 10000

set_threshold(motif, c, pvalue, thresh0, is_consensus) ==
  LET below == {i \in 0..(motif.cdf_size - 1) : c[i] < pvalue}
      threshold_i == IF below = {} THEN motif.cdf_size ELSE MinOf(below)
      t1 == (motif.threshold - motif.min) * motif.size
      t2 == threshold_i - t1
      mm == max_min_score(motif, 0, <<motif.max_score, motif.min_score>>)
      min_pvalue == score2pval(motif, c, mm[1])
      t3 == IF exceeds_pvalue(min_pvalue, pvalue) THEN INT_MAX ELSE t2
      t4 == IF thresh0 THEN 0
            ELSE IF is_consensus THEN mm[1] ELSE t3
  IN [motif EXCEPT !.threshold = t4, !.max_score = mm[1], !.min_score = mm[2]]


(***************************************************************************)
(* yamscan: scoring a sequence                                             *)
(*                                                                         *)
(* A sequence is a TLA+ sequence of one-letter strings: seq[i] of the code *)
(* is s[i + 1] here.  score_seq and score_seq_in_bed return the records    *)
(* they print, in the order they print them, and the windows they score.   *)
(***************************************************************************)
char2maskindex_mutant(c) == char2index(c)

\* char2maskindex: lowercase letters are non-standard too
char2maskindex(c) ==
  CASE c = "A" -> 0
    [] c = "C" -> 1
    [] c = "G" -> 2
    [] c \in {"T", "U"} -> 3
    [] OTHER -> 4

\* args.mask ? char2maskindex : char2index
char2Xindex(c) == IF args.mask THEN char2maskindex(c) ELSE char2index(c)

RECURSIVE score_subseq_from(_, _, _, _, _)
score_subseq_from(pwm, size, s, offset, i) ==
  IF i = size THEN 0
  ELSE pwm[char2Xindex(s[i + offset + 1]) + i * 5]
         + score_subseq_from(pwm, size, s, offset, i + 1)

score_subseq(motif, s, offset) ==
  score_subseq_from(motif.pwm, motif.size, s, offset, 0)

score_subseq_rev(motif, s, offset) ==
  score_subseq_from(motif.pwm_rc, motif.size, s, offset, 0)

\* what PRINT_RES / PRINT_RES_BED write; bed_i is -1 without BED ranges
hit(motif, mi, c, seq_i, seq_name, i, strand, score, bed_i) ==
  [kind |-> "hit", motif_i |-> mi, motif |-> motif.name, seq_i |-> seq_i,
   seq_name |-> seq_name, start |-> i + 1, end_ |-> i + motif.size,
   strand |-> strand, score |-> score, pvalue |-> score2pval(motif, c, score),
   bed_i |-> bed_i]

RECURSIVE loop_records_mutant(_, _, _)
loop_records_mutant(f, i, end_) ==
  IF i >= end_ THEN <<>> ELSE loop_records_mutant(f, i + 1, end_) \o f[i]

\* the records of iterations i .. end_ - 1, in the order of the loop
RECURSIVE loop_records(_, _, _)
loop_records(f, i, end_) ==
  IF i >= end_ THEN <<>> ELSE f[i] \o loop_records(f, i + 1, end_)

score_seq_end_mutant(seq_size, mot_size) == seq_size - mot_size

\* the exclusive upper bound of the loops of score_seq
score_seq_end(seq_size, mot_size) == seq_size - mot_size + 1

score_seq(motif, mi, c, seq_i, seq_name, s, seq_size, scan_rc) ==
  IF seq_size < motif.size \/ motif.threshold = INT_MAX
    THEN [recs |-> <<>>, wins |-> {}]
    ELSE
      LET threshold == motif.threshold - 1
          end_ == score_seq_end(seq_size, motif.size)
          fwd(i) == score_subseq(motif, s, i)
          rc(i) == score_subseq_rev(motif, s, i)
          per == [i \in 0..(end_ - 1) |->
                   (IF fwd(i) > threshold
                      THEN <<hit(motif, mi, c, seq_i, seq_name, i, "+", fwd(i), -1)>>
                      ELSE <<>>)
                   \o (IF scan_rc /\ rc(i) > threshold
                      THEN <<hit(motif, mi, c, seq_i, seq_name, i, "-", rc(i), -1)>>
                      ELSE <<>>)]
      IN [recs |-> loop_records(per, 0, end_),
          wins |-> {<<mi, seq_i, i, o>> :
                      i \in 0..(end_ - 1),
                      o \in IF scan_rc THEN {"+", "-"} ELSE {"+"}}]

\* the exclusive upper bound of the loops of score_seq_in_bed
bed_loop_end(bed_end_i, mot_size) == bed_end_i - mot_size

score_seq_in_bed(motif, mi, c, s, bed_i, region, names) ==
  LET seq_i == region.seq_index
      seq_name == names[seq_i + 1]
      bed_size == region.end_ - region.start
      bed_start_i == region.start + 1
      bed_end_i == region.end_
      strand == region.strand
  IN IF bed_size < motif.size \/ motif.threshold = INT_MAX
       THEN [recs |-> <<>>, wins |-> {}]
       ELSE
         LET threshold == motif.threshold - 1
             end_ == bed_loop_end(bed_end_i, motif.size)
             fwd(i) == score_subseq(motif, s, i)
             rc(i) == score_subseq_rev(motif, s, i)
             per == [i \in (bed_start_i - 1)..(end_ - 1) |->
                      (IF strand \in {".", "+"} /\ fwd(i) > threshold
                         THEN <<hit(motif, mi, c, seq_i, seq_name, i, "+", fwd(i), bed_i)>>
                         ELSE <<>>)
                      \o (IF strand \in {".", "-"} /\ rc(i) > threshold
                         THEN <<hit(motif, mi, c, seq_i, seq_name, i, "-", rc(i), bed_i)>>
                         ELSE <<>>)]
         IN [recs |-> loop_records(per, bed_start_i - 1, end_),
             wins |-> {<<mi, seq_i, i, o>> :
                         i \in (bed_start_i - 1)..(end_ - 1),
                         o \in CASE strand = "." -> {"+", "-"}
                                 [] strand = "+" -> {"+"}
                                 [] strand = "-" -> {"-"}}]

(***************************************************************************)
(* yamscan: duplicate names and BED ranges                                 *)
(***************************************************************************)
MAX_NAME_SIZE == 256
SEQ_NAME_MAX_CHAR == 512

\* <<success, arr>>: "__N<N>" and its terminator are appended when they fit
dedup_char_array(arr, arr_max_len, N) ==
  LET dedup == "__N" \o ToString(N)
      arr_len == Len(arr)
      dedup_len == Len(dedup) + 1
  IN IF arr_max_len - arr_len >= dedup_len
       THEN <<TRUE, arr \o dedup>>
       ELSE <<FALSE, arr>>

\* the hash loop of find_motif_dupes: is_dup[i] for the names it visits
motif_is_dup(ms) ==
  [i \in 1..Len(ms) |->
     IF i - 1 < Len(ms) - 1 /\ \E h \in 1..(i - 1) : ms[h].name = ms[i].name
       THEN 1 ELSE 0]

\* [ok, motifs]: ok = FALSE is badexit
find_motif_dupes(ms, dedup) ==
  IF Len(ms) = 1 THEN [ok |-> TRUE, motifs |-> ms]
  ELSE LET is_dup == motif_is_dup(ms)
           renamed == [i \in 1..Len(ms) |->
                         IF is_dup[i] = 1
                           THEN [ms[i] EXCEPT
                                   !.name = dedup_char_array(@, MAX_NAME_SIZE, i)[2]]
                           ELSE ms[i]]
       IN IF \A i \in 1..Len(ms) : is_dup[i] = 0
            THEN [ok |-> TRUE, motifs |-> ms]
            ELSE IF dedup
              THEN [ok |-> \A i \in 1..Len(ms) :
                             is_dup[i] = 1 =>
                               dedup_char_array(ms[i].name, MAX_NAME_SIZE, i)[1],
                    motifs |-> renamed]
              ELSE [ok |-> FALSE, motifs |-> ms]

\* the bytes malloc'ed for a sequence name by load_seqs and
\* peek_through_seqs
seq_name_alloc(name_l, comment_l) == name_l + comment_l + 2

\* the names find_seq_dupes rewrites under -d (1-based)
seq_renamed(names) ==
  {i \in 1..Len(names) : \E h \in 1..(i - 1) : names[h] = names[i]}

\* some rewritten name, with its terminator, ends beyond the bytes that
\* were allocated for it (the input files of the model have no comments)
dedup_overflows(names) ==
  \E i \in seq_renamed(names) :
    LET r == dedup_char_array(names[i], SEQ_NAME_MAX_CHAR, i)
    IN r[1] /\ Len(r[2]) + 1 > seq_name_alloc(Len(names[i]), 0)

\* [ok, names]: the hash loop of find_seq_dupes visits every name
find_seq_dupes(names, dedup) ==
  LET is_dup == [i \in 1..Len(names) |->
                   IF \E h \in 1..(i - 1) : names[h] = names[i] THEN 1 ELSE 0]
  IN IF \A i \in 1..Len(names) : is_dup[i] = 0
       THEN [ok |-> TRUE, names |-> names]
       ELSE IF dedup
         THEN [ok |-> \A i \in 1..Len(names) :
                        is_dup[i] = 1 =>
                          dedup_char_array(names[i], SEQ_NAME_MAX_CHAR, i)[1],
               names |-> [i \in 1..Len(names) |->
                            IF is_dup[i] = 1
                              THEN dedup_char_array(names[i], SEQ_NAME_MAX_CHAR, i)[2]
                              ELSE names[i]]]
         ELSE [ok |-> FALSE, names |-> names]

\* read_bed on the parsed lines: the strand is one of + - . and start < end
read_bed(lines) ==
  [ok |-> \A i \in 1..Len(lines) :
            lines[i].strand \in {"+", "-", "."} /\ lines[i].start < lines[i].end_,
   bed |-> lines]

\* the sequence index of each range (the first sequence of that name)
fill_bed_seq_indices(b, names) ==
  [ok |-> \A i \in 1..Len(b) : \E j \in 1..Len(names) : names[j] = b[i].seq_name,
   bed |-> [i \in 1..Len(b) |->
              [seq_name |-> b[i].seq_name, start |-> b[i].start, end_ |-> b[i].end_,
               strand |-> b[i].strand,
               seq_index |->
                 IF \E j \in 1..Len(names) : names[j] = b[i].seq_name
                   THEN MinOf({j \in 1..Len(names) : names[j] = b[i].seq_name}) - 1
                   ELSE -1]]]

check_bed_ranges_mutant(b, sizes, v) ==
  [ok |-> \A i \in 1..Len(b) : ~(b[i].start + 1 > sizes[b[i].seq_index + 1]),
   bed |-> b,
   warnings |-> {}]

\* a start beyond the sequence is fatal, an end beyond it is trimmed, and the
\* trimming is reported when args.v is set
check_bed_ranges(b, sizes, v) ==
  [ok |-> \A i \in 1..Len(b) : ~(b[i].start + 1 > sizes[b[i].seq_index + 1]),
   bed |-> [i \in 1..Len(b) |->
              IF b[i].end_ > sizes[b[i].seq_index + 1]
                THEN [b[i] EXCEPT !.end_ = sizes[b[i].seq_index + 1]]
                ELSE b[i]],
   warnings |->
     LET bad == {j \in 1..Len(b) : b[j].start + 1 > sizes[b[j].seq_index + 1]}
         stop == IF bad = {} THEN Len(b) + 1 ELSE MinOf(bad)
     IN {[msg |-> "Warning: Trimming range", n |-> i] :
           i \in {j \in 1..(stop - 1) :
                    v /\ b[j].end_ > sizes[b[j].seq_index + 1]}}]

(***************************************************************************)
(* yamscan: the command lines and input files of the model                 *)
(***************************************************************************)
MaxThreads == 3

PWM_A == << <<2, -1, -1, -1>> >>
PWM_AC == << <<2, -1, -1, -1>>, <<-1, 2, -1, -1>> >>

PWM_C == << <<-1, 2, -1, -1>> >>

\* motif files as load_motifs parses them: names and integer score rows
MotifFiles ==
  { << [name |-> "JUN", rows |-> PWM_A] >>,
    << [name |-> "JUN", rows |-> PWM_A], [name |-> "FOS", rows |-> PWM_AC] >>,
    << [name |-> "JUN", rows |-> PWM_A], [name |-> "JUN", rows |-> PWM_AC] >>,
    << [name |-> "JUN", rows |-> PWM_A], [name |-> "JUN", rows |-> PWM_A],
       [name |-> "FOS", rows |-> PWM_AC] >>,
    << [name |-> "JUN", rows |-> PWM_A], [name |-> "FOS", rows |-> PWM_AC],
       [name |-> "MYC", rows |-> PWM_C] >> }

\* sequence files as kseq_read returns them
SeqLong ==
  << [name |-> "chr1", s |-> <<"A", "C", "N", "A", "T">>],
     [name |-> "chr2", s |-> <<"A">>] >>
SeqShort ==
  << [name |-> "chr1", s |-> <<"A", "C">>],
     [name |-> "chr2", s |-> <<"t", "A">>] >>
SeqDup ==
  << [name |-> "chr1", s |-> <<"A", "C">>],
     [name |-> "chr1", s |-> <<"a">>] >>

\* the second chr1 is sequence #2: its new name is that of sequence #3
SeqSuffix ==
  << [name |-> "chr1", s |-> <<"A">>],
     [name |-> "chr1", s |-> <<"C">>],
     [name |-> "chr1__N2", s |-> <<"A">>] >>

\* a sequence shorter than a motif of two positions by more than one
SeqEmpty ==
  << [name |-> "chr1", s |-> <<"A", "C">>],
     [name |-> "chr2", s |-> <<>>] >>

\* BED files, one record per data line
BedFiles ==
  { << [seq_name |-> "chr1", start |-> 1, end_ |-> 5, strand |-> "+"] >>,
    << [seq_name |-> "chr2", start |-> 0, end_ |-> 1, strand |-> "."],
       [seq_name |-> "chr1", start |-> 2, end_ |-> 9, strand |-> "."],
       [seq_name |-> "chr1", start |-> 0, end_ |-> 3, strand |-> "-"] >>,
    << [seq_name |-> "chr2", start |-> 3, end_ |-> 4, strand |-> "+"] >>,
    << [seq_name |-> "chr3", start |-> 0, end_ |-> 1, strand |-> "+"] >>,
    << [seq_name |-> "chr1", start |-> 0, end_ |-> 2, strand |-> "+"],
       [seq_name |-> "chr1", start |-> 3, end_ |-> 3, strand |-> "."] >> }
BedShort ==
  << [seq_name |-> "chr2", start |-> 0, end_ |-> 2, strand |-> "-"],
     [seq_name |-> "chr1", start |-> 0, end_ |-> 2, strand |-> "+"] >>

\* -t values: 0.5, just below 0.25, 0.125, just below 0.0625
PvaluesAll == {ONE \div 2, ONE \div 4 - 1, ONE \div 8, ONE \div 16 - 1}
PvaluesScan == {ONE \div 2, ONE \div 4 - 1}

\* background frequencies in eighths, after check_and_load_bkg
BkgUniform == [j \in 0..3 |-> 2]
BkgSkewed == [j \in 0..3 |-> <<4, 2, 1, 1>>[j + 1]]

\* yamscan -m <file> [-t p] [-b bkg] [-0] [-d] [-j n]: motifs only
ArgvMotifsOnly ==
  [j : 1..2, l : {FALSE}, f : {FALSE}, d : BOOLEAN, zero : BOOLEAN, g : {FALSE},
   pvalue : PvaluesAll, bkg : {BkgUniform, BkgSkewed}, use_stdin : {FALSE},
   m : MotifFiles, s : {<<>>}, x : {<<>>}, v : {FALSE}, M : {FALSE},
   one : {<<>>}]

\* yamscan -m <file> -s <file> [-x bed] [-l] [-f] [-d] [-0] [-g] [-t p] [-v] [-M]
ArgvSingle ==
  { a \in [j : {1}, l : BOOLEAN, f : BOOLEAN, d : BOOLEAN, zero : BOOLEAN,
           g : BOOLEAN, pvalue : PvaluesScan, bkg : {BkgUniform},
           use_stdin : BOOLEAN, m : MotifFiles,
           s : {SeqLong, SeqDup, SeqSuffix, SeqEmpty},
           x : BedFiles \cup {<<>>}, v : BOOLEAN, M : BOOLEAN,
           one : {<<>>}] :
      /\ a.s = SeqSuffix => (a.d /\ ~a.M /\ a.x = <<>> /\ Len(a.m) = 1)
      /\ a.s = SeqEmpty => (~a.d /\ ~a.M /\ ~a.g /\ ~a.zero /\ ~a.use_stdin /\ a.x = <<>>)
      /\ a.M => (a.s = SeqDup /\ a.d /\ ~a.g /\ ~a.use_stdin /\ a.x = <<>>)
      /\ a.v => (a.x # <<>> /\ a.l /\ ~a.d /\ a.pvalue = ONE \div 2)
      /\ a.g => (a.l /\ ~a.f /\ ~a.d /\ ~a.zero /\ ~a.use_stdin /\ a.x = <<>>)
      /\ a.zero => (~a.d /\ ~a.use_stdin /\ a.pvalue = ONE \div 2 /\ a.x = <<>>)
      /\ a.use_stdin => (~a.l /\ ~a.f /\ ~a.d)
      /\ a.f => a.x = <<>>
      /\ a.s \in {SeqDup, SeqSuffix} => (~a.l /\ ~a.f /\ a.pvalue = ONE \div 2)
      /\ a.s = SeqEmpty => (~a.l /\ a.pvalue = ONE \div 2) }

\* yamscan -j n -m <file> -s <file> [-x bed] [-g] [-M]
ArgvMulti ==
  { a \in [j : 2..MaxThreads, l : {FALSE}, f : {FALSE}, d : {FALSE}, zero : {FALSE},
           g : BOOLEAN, pvalue : {ONE \div 2}, bkg : {BkgUniform},
           use_stdin : BOOLEAN, m : MotifFiles, s : {SeqShort},
           x : {BedShort, <<>>}, v : {FALSE}, M : BOOLEAN,
           one : {<<>>}] :
      /\ a.M => (a.j = 2 /\ a.x = <<>> /\ ~a.g /\ ~a.use_stdin)
      /\ a.g => (a.x = <<>> /\ ~a.use_stdin)
      /\ a.use_stdin => a.x = <<>> }

\* the consensus strings of -1
Consensus ==
  { [name |-> "ACGT", letters |-> <<"A", "C", "G", "T">>],
    [name |-> "AR", letters |-> <<"A", "R">>],
    [name |-> "AX", letters |-> <<"A", "X">>] }

SeqConsensus ==
  << [name |-> "chr1", s |-> <<"A", "A", "A", "C", "G", "T", "A", "A">>] >>

\* yamscan -1 <consensus> -s <file> [-0] [-f] [-l] [-j n]
ArgvConsensus ==
  [j : 1..2, l : BOOLEAN, f : BOOLEAN, d : {FALSE}, zero : BOOLEAN, g : {FALSE},
   pvalue : {ONE \div 2}, bkg : {BkgSkewed}, use_stdin : {FALSE}, m : {<<>>},
   s : {SeqConsensus}, x : {<<>>}, v : {FALSE}, M : {FALSE}, one : Consensus]

ArgvScan == ArgvSingle \cup ArgvMulti \cup ArgvConsensus

has_seqs == argv.s # <<>>
has_consensus == argv.one # <<>>
use_stdin == argv.use_stdin

\* the state when option parsing is over
InitScan ==
  /\ argv \in ArgvMotifsOnly \cup ArgvScan
  /\ main_pc = "start"
  /\ args = [nthreads |-> argv.j, low_mem |-> ~argv.l, scan_rc |-> ~argv.f,
             dedup |-> argv.d, use_bed |-> argv.x # <<>>, thresh0 |-> argv.zero,
             progress |-> argv.g, pvalue |-> argv.pvalue, bkg |-> argv.bkg,
             v |-> argv.v, mask |-> argv.M]
  /\ motifs = <<>>
  /\ seq_names = <<>>
  /\ seq_sizes = <<>>
  /\ seqs = <<>>
  /\ bed = <<>>
  /\ cdf = <<>>
  /\ cdf_real_size = <<>>
  /\ worker_pc = [t \in 0..(argv.j - 1) |-> "none"]
  /\ worker_i = [t \in 0..(argv.j - 1) |-> 0]
  /\ worker_j = [t \in 0..(argv.j - 1) |-> 0]
  /\ pending = [t \in 0..(argv.j - 1) |-> <<>>]
  /\ loop_m = 0
  /\ loop_s = 0
  /\ out = <<>>
  /\ evaluated = {}
  /\ freed = FALSE
  /\ exit_code = "none"
  /\ pb_counter = 0
  /\ pb_lock = "free"
  /\ stderr_log = {}
  /\ ShufIdle
  /\ LoadIdle

\* badexit called by the main thread while no worker runs
MainBadexit ==
  /\ freed' = TRUE
  /\ exit_code' = "EXIT_FAILURE"
  /\ main_pc' = "exited"

load_motifs(file) ==
  [i \in 1..Len(file) |-> complete_motif(init_motif(file[i].name, file[i].rows))]

\* main up to find_motif_dupes
MainLoadMotifs ==
  /\ main_pc = "start"
  /\ exit_code = "none"
  /\ IF args.dedup /\ args.use_bed
       THEN MainBadexit /\ UNCHANGED <<motifs, args>>
       ELSE IF has_consensus
         THEN LET r == add_consensus_motif(argv.one)
              IN IF r.ok
                   THEN /\ motifs' = <<r.motif>>
                        /\ args' = [args EXCEPT !.bkg = BkgUniform, !.pvalue = ONE]
                        /\ main_pc' = "threads"
                        /\ UNCHANGED <<freed, exit_code>>
                   ELSE MainBadexit /\ UNCHANGED <<motifs, args>>
         ELSE LET r == find_motif_dupes(load_motifs(argv.m), args.dedup)
              IN IF r.ok
                   THEN /\ motifs' = r.motifs
                        /\ main_pc' = "threads"
                        /\ UNCHANGED <<freed, exit_code, args>>
                   ELSE MainBadexit /\ UNCHANGED <<motifs, args>>
  /\ UNCHANGED <<argv, stderr_log, seq_names, seq_sizes, seqs, bed, cdf, cdf_real_size,
                 worker_pc, worker_i, worker_j, pending, loop_m, loop_s, out,
                 evaluated, pb_counter, pb_lock>>
  /\ UNCHANGED <<varsShuf, varsLoad>>

\* "Multi-threading not available for current inputs"
set_nthreads(a, n) ==
  IF has_consensus \/ ~has_seqs \/ n = 1 THEN [a EXCEPT !.nthreads = 1] ELSE a

deactivate_low_mem_mutant(a, stdin) ==
  IF stdin THEN [a EXCEPT !.low_mem = FALSE] ELSE a

\* "Deactivating low-mem mode"
deactivate_low_mem(a, stdin) ==
  IF stdin \/ a.nthreads > 1 THEN [a EXCEPT !.low_mem = FALSE] ELSE a

\* motifs[i]->thread = ((double) i / motif_info.n) * args.nthreads
motif_thread(i, n, nthreads) == (i * nthreads) \div n

\* the two adjustments of args and the assignment of motifs to threads
MainSetThreads ==
  /\ main_pc = "threads"
  /\ exit_code = "none"
  /\ LET a == deactivate_low_mem(set_nthreads(args, Len(motifs)), use_stdin)
     IN /\ args' = a
        /\ motifs' = [i \in 1..Len(motifs) |->
                        [motifs[i] EXCEPT
                           !.thread = motif_thread(i - 1, Len(motifs), a.nthreads)]]
  /\ main_pc' = IF has_seqs THEN "load_seqs" ELSE "print_begin"
  /\ UNCHANGED <<argv, stderr_log, seq_names, seq_sizes, seqs, bed, cdf, cdf_real_size,
                 worker_pc, worker_i, worker_j, pending, loop_m, loop_s, out,
                 evaluated, freed, exit_code, pb_counter, pb_lock>>
  /\ UNCHANGED <<varsShuf, varsLoad>>

(***************************************************************************)
(* yamscan: the main thread                                                *)
(***************************************************************************)
\* alloc_cdf: one slot of size 1 per thread
alloc_cdf(nthreads) ==
  [cdf |-> [t \in 0..(nthreads - 1) |-> <<>>],
   cdf_real_size |-> [t \in 0..(nthreads - 1) |-> 1]]

\* fill_cdf calls badexit: the size check, or the realloc that returns NULL
fill_cdf_fails(motif, realloc_ok) ==
  \/ motif.cdf_size > MAX_CDF_SIZE
  \/ cdf_real_size[motif.thread] < motif.cdf_size /\ ~realloc_ok

\* fill_cdf and set_threshold on motifs[i] (1-based here), when they return
FillAndSetThreshold(i) ==
  LET c == fill_cdf(motifs[i], args.bkg)
      t == motifs[i].thread
  IN /\ cdf' = [cdf EXCEPT ![t] = c]
     /\ cdf_real_size' = [cdf_real_size EXCEPT
                            ![t] = IF @ < motifs[i].cdf_size
                                     THEN motifs[i].cdf_size ELSE @]
     /\ motifs' = [motifs EXCEPT
                     ![i] = set_threshold(@, c, args.pvalue, args.thresh0,
                                          has_consensus)]

\* "No sequences provided, parsing + printing motifs before exit"
MainPrintBegin ==
  /\ main_pc = "print_begin"
  /\ exit_code = "none"
  /\ cdf' = alloc_cdf(args.nthreads).cdf
  /\ cdf_real_size' = alloc_cdf(args.nthreads).cdf_real_size
  /\ loop_m' = 0
  /\ main_pc' = "print_motifs"
  /\ UNCHANGED <<argv, stderr_log, args, motifs, seq_names, seq_sizes, seqs, bed, worker_pc,
                 worker_i, worker_j, pending, loop_s, out, evaluated, freed,
                 exit_code, pb_counter, pb_lock>>
  /\ UNCHANGED <<varsShuf, varsLoad>>

\* one iteration of the print loop: fill_cdf, set_threshold, print_motif
MainPrintMotif ==
  /\ main_pc = "print_motifs"
  /\ exit_code = "none"
  /\ loop_m < Len(motifs)
  /\ \E realloc_ok \in BOOLEAN :
       IF fill_cdf_fails(motifs[loop_m + 1], realloc_ok)
         THEN /\ MainBadexit
              /\ UNCHANGED <<cdf, cdf_real_size, motifs, out, loop_m>>
         ELSE /\ FillAndSetThreshold(loop_m + 1)
              /\ out' = Append(out, [kind |-> "motif", motif_i |-> loop_m,
                                     motif |-> motifs'[loop_m + 1].name,
                                     threshold |-> motifs'[loop_m + 1].threshold])
              /\ loop_m' = loop_m + 1
              /\ UNCHANGED <<main_pc, freed, exit_code>>
  /\ UNCHANGED <<argv, stderr_log, args, seq_names, seq_sizes, seqs, bed, worker_pc, worker_i,
                 worker_j, pending, loop_s, evaluated, pb_counter, pb_lock>>
  /\ UNCHANGED <<varsShuf, varsLoad>>

\* peek_through_seqs or load_seqs, find_seq_dupes, then the BED file
MainLoadSeqs ==
  /\ main_pc = "load_seqs"
  /\ exit_code = "none"
  /\ LET names == [i \in 1..Len(argv.s) |-> argv.s[i].name]
         sizes == [i \in 1..Len(argv.s) |-> Len(argv.s[i].s)]
         d == find_seq_dupes(names, args.dedup)
         b1 == read_bed(argv.x)
         b2 == fill_bed_seq_indices(b1.bed, names)
         b3 == check_bed_ranges(b2.bed, sizes, args.v)
     IN \/ IF d.ok /\ (args.use_bed => (b1.ok /\ b2.ok /\ b3.ok))
          THEN /\ seq_names' = d.names
               /\ seq_sizes' = sizes
               /\ seqs' = IF args.low_mem THEN <<>>
                          ELSE [i \in 1..Len(argv.s) |-> argv.s[i].s]
               /\ bed' = IF args.use_bed THEN b3.bed ELSE <<>>
               /\ stderr_log' = IF args.use_bed
                                  THEN stderr_log \cup b3.warnings
                                  ELSE stderr_log
               /\ main_pc' = "header"
               /\ UNCHANGED <<freed, exit_code>>
          ELSE /\ MainBadexit
               /\ stderr_log' = IF d.ok /\ args.use_bed /\ b1.ok /\ b2.ok
                                  THEN stderr_log \cup b3.warnings
                                  ELSE stderr_log
               /\ UNCHANGED <<seq_names, seq_sizes, seqs, bed>>
        \* the write beyond the name's allocation may also end the process
        \/ /\ args.dedup
           /\ dedup_overflows(names)
           /\ exit_code' = "SIGSEGV"
           /\ main_pc' = "exited"
           /\ UNCHANGED <<freed, stderr_log, seq_names, seq_sizes, seqs, bed>>
  /\ UNCHANGED <<argv, args, motifs, cdf, cdf_real_size, worker_pc, worker_i,
                 worker_j, pending, loop_m, loop_s, out, evaluated, pb_counter,
                 pb_lock>>
  /\ UNCHANGED <<varsShuf, varsLoad>>

\* A uint64_t is kept as the integer of least absolute value in its class
\* modulo 2^64: -1 stands for 2^64 - 1.  a > b on two uint64_t:
uint64_gt(a, b) == IF (a < 0) = (b < 0) THEN a > b ELSE a < 0

\* MAX(0, x) where x is uint64_t: the int 0 is converted to uint64_t
MAX(x, y) == IF uint64_gt(x, y) THEN x ELSE y

\* the double loop over motifs i and sequences j, flattened: p = i * n + j
RECURSIVE max_possible_hits_loop(_, _, _, _)
max_possible_hits_loop(ms, sizes, p, acc) ==
  IF p = Len(ms) * Len(sizes) THEN acc
  ELSE LET i == p \div Len(sizes)
           j == p % Len(sizes)
       IN max_possible_hits_loop(ms, sizes, p + 1,
                                 acc + MAX(0, 1 + sizes[j + 1] - ms[i + 1].size))

\* uint64_t max_possible_hits of main
max_possible_hits(ms, sizes, scan_rc) ==
  LET total == max_possible_hits_loop(ms, sizes, 0, 0)
  IN IF scan_rc THEN total * 2 ELSE total

\* the two header lines, then alloc_cdf
MainHeader ==
  /\ main_pc = "header"
  /\ exit_code = "none"
  /\ out' = Append(out, [kind |-> "header", motif_count |-> Len(motifs),
                         seq_count |-> Len(seq_names),
                         max_possible_hits |->
                           max_possible_hits(motifs, seq_sizes, args.scan_rc)])
  /\ cdf' = alloc_cdf(args.nthreads).cdf
  /\ cdf_real_size' = alloc_cdf(args.nthreads).cdf_real_size
  /\ loop_m' = 0
  /\ loop_s' = 0
  /\ main_pc' = IF args.low_mem THEN "low_mem" ELSE "create"
  /\ UNCHANGED <<argv, stderr_log, args, motifs, seq_names, seq_sizes, seqs, bed, worker_pc,
                 worker_i, worker_j, pending, evaluated, freed, exit_code,
                 pb_counter, pb_lock>>
  /\ UNCHANGED <<varsShuf, varsLoad>>

\* the low-memory loop, motif i: fill_cdf and set_threshold
MainLowMemMotif ==
  /\ main_pc = "low_mem"
  /\ exit_code = "none"
  /\ loop_m < Len(motifs)
  /\ \E realloc_ok \in BOOLEAN :
       IF fill_cdf_fails(motifs[loop_m + 1], realloc_ok)
         THEN /\ MainBadexit
              /\ UNCHANGED <<cdf, cdf_real_size, motifs, loop_s>>
         ELSE /\ FillAndSetThreshold(loop_m + 1)
              /\ loop_s' = 0
              /\ main_pc' = "low_mem_seq"
              /\ UNCHANGED <<freed, exit_code>>
  /\ UNCHANGED <<argv, stderr_log, args, seq_names, seq_sizes, seqs, bed, worker_pc, worker_i,
                 worker_j, pending, loop_m, out, evaluated, pb_counter, pb_lock>>
  /\ UNCHANGED <<varsShuf, varsLoad>>

\* the records and windows of the ranges of sequence j, in BED-file order
RECURSIVE low_mem_bed(_, _, _, _, _, _)
low_mem_bed(motif, mi, c, s, j, kk) ==
  IF kk > Len(bed) THEN [recs |-> <<>>, wins |-> {}]
  ELSE LET rest == low_mem_bed(motif, mi, c, s, j, kk + 1)
           r == IF bed[kk].seq_index = j
                  THEN score_seq_in_bed(motif, mi, c, s, kk - 1, bed[kk], seq_names)
                  ELSE [recs |-> <<>>, wins |-> {}]
       IN [recs |-> r.recs \o rest.recs, wins |-> r.wins \cup rest.wins]

kseq_read_mutant(file, j) ==
  [x \in 1..Len(file[j + 1].s) |-> file[j + 1].s[Len(file[j + 1].s) + 1 - x]]

\* the j-th kseq_read after a rewind (0-based): seqs[0] = kseq->seq.s
kseq_read(file, j) == file[j + 1].s

\* the low-memory loop, sequence j of motif i: kseq_read and the scoring;
\* after the last sequence the file is rewound and the next motif starts
MainLowMemSeq ==
  /\ main_pc = "low_mem_seq"
  /\ exit_code = "none"
  /\ LET s == kseq_read(argv.s, loop_s)
         motif == motifs[loop_m + 1]
         r == IF ~args.use_bed
                THEN score_seq(motif, loop_m, cdf[motif.thread], loop_s,
                               seq_names[loop_s + 1], s, seq_sizes[loop_s + 1],
                               args.scan_rc)
                ELSE low_mem_bed(motif, loop_m, cdf[motif.thread], s, loop_s, 1)
     IN /\ seqs' = <<s>>
        /\ out' = out \o r.recs
        /\ evaluated' = evaluated \cup r.wins
  /\ IF loop_s + 1 < Len(seq_names)
       THEN /\ loop_s' = loop_s + 1
            /\ UNCHANGED <<loop_m, main_pc>>
       ELSE /\ loop_s' = 0
            /\ loop_m' = loop_m + 1
            /\ main_pc' = "low_mem"
  /\ UNCHANGED <<argv, stderr_log, args, motifs, seq_names, seq_sizes, bed, cdf, cdf_real_size,
                 worker_pc, worker_i, worker_j, pending, freed, exit_code,
                 pb_counter, pb_lock>>
  /\ UNCHANGED <<varsShuf, varsLoad>>

\* one iteration of the pthread_create loop
MainCreateThread ==
  /\ main_pc = "create"
  /\ exit_code = "none"
  /\ loop_m < args.nthreads
  /\ worker_pc' = [worker_pc EXCEPT ![loop_m] = "loop"]
  /\ IF loop_m + 1 < args.nthreads
       THEN loop_m' = loop_m + 1 /\ UNCHANGED main_pc
       ELSE loop_m' = 0 /\ main_pc' = "join"
  /\ UNCHANGED <<argv, stderr_log, args, motifs, seq_names, seq_sizes, seqs, bed, cdf,
                 cdf_real_size, worker_i, worker_j, pending, loop_s, out,
                 evaluated, freed, exit_code, pb_counter, pb_lock>>
  /\ UNCHANGED <<varsShuf, varsLoad>>

\* one iteration of the pthread_join loop
MainJoin ==
  /\ main_pc = "join"
  /\ exit_code = "none"
  /\ loop_m < args.nthreads
  /\ worker_pc[loop_m] = "returned"
  /\ worker_pc' = [worker_pc EXCEPT ![loop_m] = "joined"]
  /\ loop_m' = loop_m + 1
  /\ UNCHANGED <<argv, stderr_log, main_pc, args, motifs, seq_names, seq_sizes, seqs, bed, cdf,
                 cdf_real_size, worker_i, worker_j, pending, loop_s, out,
                 evaluated, freed, exit_code, pb_counter, pb_lock>>
  /\ UNCHANGED <<varsShuf, varsLoad>>

\* free_cdf, close_files, the frees and return EXIT_SUCCESS
MainTeardown ==
  /\ exit_code = "none"
  /\ \/ main_pc = "print_motifs" /\ loop_m = Len(motifs)
     \/ main_pc = "low_mem" /\ loop_m = Len(motifs)
     \/ main_pc = "join" /\ loop_m = args.nthreads
  /\ freed' = TRUE
  /\ exit_code' = "EXIT_SUCCESS"
  /\ main_pc' = "done"
  /\ UNCHANGED <<argv, stderr_log, args, motifs, seq_names, seq_sizes, seqs, bed, cdf,
                 cdf_real_size, worker_pc, worker_i, worker_j, pending, loop_m,
                 loop_s, out, evaluated, pb_counter, pb_lock>>
  /\ UNCHANGED <<varsShuf, varsLoad>>

(***************************************************************************)
(* yamscan: the worker threads (scan_sub_process)                          *)
(***************************************************************************)
Workers == DOMAIN worker_pc

owns_mutant(t, motif) == TRUE

\* the thread's test on motifs[i] (1-based here)
owns(t, motif) == t = motif.thread

\* the motifs the loop of thread t has still to visit
owned_from(t, i) == {m \in (i + 1)..Len(motifs) : owns(t, motifs[m])}

calls_per_motif_mutant == IF args.use_bed THEN Len(bed) ELSE Len(seq_names) - 1

\* the number of score_seq / score_seq_in_bed calls per motif
calls_per_motif == IF args.use_bed THEN Len(bed) ELSE Len(seq_names)

\* where thread t goes when call j has printed its last record
after_call(j) ==
  IF j < calls_per_motif THEN "score"
  ELSE IF args.progress THEN "lock" ELSE "next"

\* the loop reaches the thread's next motif: fill_cdf, set_threshold; a
\* failing fill_cdf is badexit inside the thread, which frees the shared
\* tables before it calls exit
WorkerMotif(t) ==
  /\ exit_code = "none"
  /\ worker_pc[t] = "loop"
  /\ owned_from(t, worker_i[t]) # {}
  /\ LET i == MinOf(owned_from(t, worker_i[t]))
     IN \E realloc_ok \in BOOLEAN :
          IF fill_cdf_fails(motifs[i], realloc_ok)
            THEN /\ freed' = TRUE
                 /\ worker_pc' = [worker_pc EXCEPT ![t] = "badexit"]
                 /\ UNCHANGED <<cdf, cdf_real_size, motifs, worker_i, worker_j>>
            ELSE /\ FillAndSetThreshold(i)
                 /\ worker_i' = [worker_i EXCEPT ![t] = i - 1]
                 /\ worker_j' = [worker_j EXCEPT ![t] = 0]
                 /\ worker_pc' = [worker_pc EXCEPT ![t] = after_call(0)]
                 /\ UNCHANGED freed
  /\ UNCHANGED <<argv, stderr_log, main_pc, args, seq_names, seq_sizes, seqs, bed, pending,
                 loop_m, loop_s, out, evaluated, exit_code, pb_counter, pb_lock>>
  /\ UNCHANGED <<varsShuf, varsLoad>>

\* one call of score_seq or score_seq_in_bed: its windows are scored and
\* its records queue up for the output file
WorkerScore(t) ==
  /\ exit_code = "none"
  /\ worker_pc[t] = "score"
  /\ pending[t] = <<>>
  /\ LET i == worker_i[t]
         j == worker_j[t]
         motif == motifs[i + 1]
         r == IF ~args.use_bed
                THEN score_seq(motif, i, cdf[t], j, seq_names[j + 1], seqs[j + 1],
                               seq_sizes[j + 1], args.scan_rc)
                ELSE score_seq_in_bed(motif, i, cdf[t],
                                      seqs[bed[j + 1].seq_index + 1], j, bed[j + 1],
                                      seq_names)
     IN /\ pending' = [pending EXCEPT ![t] = r.recs]
        /\ evaluated' = evaluated \cup r.wins
        /\ worker_j' = [worker_j EXCEPT ![t] = j + 1]
        /\ worker_pc' = [worker_pc EXCEPT
                           ![t] = IF r.recs = <<>> THEN after_call(j + 1) ELSE "score"]
  /\ UNCHANGED <<argv, stderr_log, main_pc, args, motifs, seq_names, seq_sizes, seqs, bed, cdf,
                 cdf_real_size, worker_i, loop_m, loop_s, out, freed, exit_code,
                 pb_counter, pb_lock>>
  /\ UNCHANGED <<varsShuf, varsLoad>>

\* one fprintf: a whole record goes to files.o
WorkerPrint(t) ==
  /\ exit_code = "none"
  /\ worker_pc[t] = "score"
  /\ pending[t] # <<>>
  /\ out' = Append(out, Head(pending[t]))
  /\ pending' = [pending EXCEPT ![t] = Tail(@)]
  /\ worker_pc' = [worker_pc EXCEPT
                     ![t] = IF Tail(pending[t]) = <<>>
                              THEN after_call(worker_j[t]) ELSE "score"]
  /\ UNCHANGED <<argv, stderr_log, main_pc, args, motifs, seq_names, seq_sizes, seqs, bed, cdf,
                 cdf_real_size, worker_i, worker_j, loop_m, loop_s, evaluated,
                 freed, exit_code, pb_counter, pb_lock>>
  /\ UNCHANGED <<varsShuf, varsLoad>>

\* pthread_mutex_lock(&pb_lock); pb_counter++; print_pb
WorkerPbLock(t) ==
  /\ exit_code = "none"
  /\ worker_pc[t] = "lock"
  /\ pb_lock = "free"
  /\ pb_lock' = "held"
  /\ pb_counter' = pb_counter + 1
  /\ worker_pc' = [worker_pc EXCEPT ![t] = "unlock"]
  /\ UNCHANGED <<argv, stderr_log, main_pc, args, motifs, seq_names, seq_sizes, seqs, bed, cdf,
                 cdf_real_size, worker_i, worker_j, pending, loop_m, loop_s, out,
                 evaluated, freed, exit_code>>
  /\ UNCHANGED <<varsShuf, varsLoad>>

\* pthread_mutex_unlock(&pb_lock), or the end of the if without -g: i++
WorkerNext(t) ==
  /\ exit_code = "none"
  /\ worker_pc[t] \in {"unlock", "next"}
  /\ pb_lock' = IF worker_pc[t] = "unlock" THEN "free" ELSE pb_lock
  /\ worker_i' = [worker_i EXCEPT ![t] = @ + 1]
  /\ worker_pc' = [worker_pc EXCEPT ![t] = "loop"]
  /\ UNCHANGED <<argv, stderr_log, main_pc, args, motifs, seq_names, seq_sizes, seqs, bed, cdf,
                 cdf_real_size, worker_j, pending, loop_m, loop_s, out, evaluated,
                 freed, exit_code, pb_counter>>
  /\ UNCHANGED <<varsShuf, varsLoad>>

\* no motif of the thread is left: free(thread_i); return NULL
WorkerReturn(t) ==
  /\ exit_code = "none"
  /\ worker_pc[t] = "loop"
  /\ owned_from(t, worker_i[t]) = {}
  /\ worker_pc' = [worker_pc EXCEPT ![t] = "returned"]
  /\ UNCHANGED <<argv, stderr_log, main_pc, args, motifs, seq_names, seq_sizes, seqs, bed, cdf,
                 cdf_real_size, worker_i, worker_j, pending, loop_m, loop_s, out,
                 evaluated, freed, exit_code, pb_counter, pb_lock>>
  /\ UNCHANGED <<varsShuf, varsLoad>>

\* the thread that called badexit reaches exit(EXIT_FAILURE)
WorkerExit(t) ==
  /\ exit_code = "none"
  /\ worker_pc[t] = "badexit"
  /\ exit_code' = "EXIT_FAILURE"
  /\ main_pc' = "exited"
  /\ UNCHANGED <<argv, stderr_log, args, motifs, seq_names, seq_sizes, seqs, bed, cdf,
                 cdf_real_size, worker_pc, worker_i, worker_j, pending, loop_m,
                 loop_s, out, evaluated, freed, pb_counter, pb_lock>>
  /\ UNCHANGED <<varsShuf, varsLoad>>

\* a thread that still runs reads motifs, sequences or ranges another
\* thread's badexit has freed: besides going on as if nothing had happened
\* (the actions above), the process may crash or print a record made of
\* whatever the freed memory holds
WorkerUseAfterFree(t) ==
  /\ exit_code = "none"
  /\ freed
  /\ worker_pc[t] \in {"loop", "score", "lock", "unlock", "next"}
  /\ \/ /\ exit_code' = "SIGSEGV"
        /\ main_pc' = "exited"
        /\ UNCHANGED out
     \/ /\ \A n \in 1..Len(out) : out[n].kind # "garbage"
        /\ out' = Append(out, [kind |-> "garbage"])
        /\ UNCHANGED <<exit_code, main_pc>>
  /\ UNCHANGED <<argv, stderr_log, args, motifs, seq_names, seq_sizes, seqs, bed, cdf,
                 cdf_real_size, worker_pc, worker_i, worker_j, pending, loop_m,
                 loop_s, evaluated, freed, pb_counter, pb_lock>>
  /\ UNCHANGED <<varsShuf, varsLoad>>

NextScan ==
  \/ MainLoadMotifs
  \/ MainSetThreads
  \/ MainPrintBegin
  \/ MainPrintMotif
  \/ MainLoadSeqs
  \/ MainHeader
  \/ MainLowMemMotif
  \/ MainLowMemSeq
  \/ MainCreateThread
  \/ MainJoin
  \/ MainTeardown
  \/ \E t \in Workers : WorkerMotif(t)
  \/ \E t \in Workers : WorkerScore(t)
  \/ \E t \in Workers : WorkerPrint(t)
  \/ \E t \in Workers : WorkerPbLock(t)
  \/ \E t \in Workers : WorkerNext(t)
  \/ \E t \in Workers : WorkerReturn(t)
  \/ \E t \in Workers : WorkerExit(t)
  \/ \E t \in Workers : WorkerUseAfterFree(t)

SpecScan == InitScan /\ [][NextScan]_vars

(***************************************************************************)
(* C21: the assignment of motifs to worker threads                         *)
(***************************************************************************)
\* the threads have their motifs: main is past the assignment loop
threads_assigned ==
  /\ main_pc \in {"load_seqs", "header", "create", "join", "done"}
  /\ motifs # <<>>

\* thread t starts on a motif: fill_cdf and set_threshold have run
starts_motif(t) ==
  /\ worker_pc[t] = "loop"
  /\ worker_pc'[t] \in {"score", "lock", "next"}

\* thread t is done with the sequences (or ranges) of its motif
ends_motif(t) ==
  /\ worker_pc[t] \in {"loop", "score"}
  /\ worker_pc'[t] \in {"lock", "next"}

\* the loop of thread t moves past index i
passes_motif(t) ==
  /\ worker_pc[t] \in {"unlock", "next"}
  /\ worker_pc'[t] = "loop"

\* free(thread_i); return NULL
returns(t) ==
  /\ worker_pc[t] = "loop"
  /\ worker_pc'[t] = "returned"

\* what one step of a worker does to its loop index: it starts on the
\* first motif at or after the index that carries its thread number, it
\* has made every call for the motif when it leaves it, it moves on by one,
\* and it returns only when no motif of its own is left
OneWorkerOnce ==
  \A t \in Workers :
    /\ starts_motif(t) =>
         /\ worker_i'[t] >= worker_i[t]
         /\ motifs[worker_i'[t] + 1].thread = t
         /\ \A m \in worker_i[t]..(worker_i'[t] - 1) : motifs[m + 1].thread # t
    /\ ends_motif(t) =>
         /\ worker_j'[t] = calls_per_motif
         /\ motifs[worker_i'[t] + 1].thread = t
    /\ passes_motif(t) => worker_i'[t] = worker_i[t] + 1
    /\ returns(t) =>
         \A m \in worker_i[t]..(Len(motifs) - 1) : motifs[m + 1].thread # t
    /\ ~(starts_motif(t) \/ passes_motif(t)) => worker_i'[t] = worker_i[t]

\* every motif has the thread number floor(i * w / n), which is the number
\* of one of the w threads
ThreadIndexInRange ==
  threads_assigned =>
    \A i \in 0..(Len(motifs) - 1) :
      /\ motifs[i + 1].thread = (i * args.nthreads) \div Len(motifs)
      /\ motifs[i + 1].thread \in 0..(args.nthreads - 1)
      /\ Cardinality({t \in 0..(args.nthreads - 1) : owns(t, motifs[i + 1])}) = 1

live_workers ==
  {t \in Workers : worker_pc[t] \in {"loop", "score", "lock", "unlock", "next",
                                      "badexit", "returned"}}

\* the motifs (0-based) thread t has left behind, and the one whose
\* pb_counter++ it has just made
passed_by(t) ==
  {m \in 0..(Len(motifs) - 1) :
     /\ motifs[m + 1].thread = t
     /\ \/ m < worker_i[t]
        \/ m = worker_i[t] /\ worker_pc[t] = "unlock"}

\* pb_lock is held by exactly the thread between lock and unlock
PbLockDiscipline ==
  /\ Cardinality({t \in Workers : worker_pc[t] = "unlock"}) <= 1
  /\ (pb_lock = "held") <=> (\E t \in Workers : worker_pc[t] = "unlock")

\* with -g the counter is the number of motifs the threads are done with,
\* and it is the number of motifs when every thread has returned
PbCounterCounts ==
  (live_workers # {} /\ args.progress) =>
    /\ pb_counter = Cardinality(UNION {passed_by(t) : t \in Workers})
    /\ pb_counter <= Len(motifs)
    /\ (\A t \in Workers : worker_pc[t] = "returned") => pb_counter = Len(motifs)

\* the scratch slot of thread t holds what fill_cdf made of the last motif
\* thread t started on, or is as alloc_cdf left it
OwnCdfSlot ==
  live_workers # {} =>
    \A t \in DOMAIN cdf :
      \/ cdf[t] = <<>>
      \/ \E m \in 1..Len(motifs) :
           /\ motifs[m].thread = t
           /\ cdf[t] = fill_cdf(motifs[m], args.bkg)

\* no thread has freed the motifs, sequences and ranges of all the threads
SharedTablesIntact == (live_workers # {} /\ args.nthreads > 1) => ~freed

\* C22: while the workers scan, the only memory more than one of them writes
\* is pb_counter, and only under pb_lock; a worker writes its own CDF slot
\* and its own motifs and nothing else; pb_counter goes up by one per
\* processed motif until it is the number of motifs.
C22_WorkersWriteOwnData ==
  /\ PbLockDiscipline
  /\ PbCounterCounts
  /\ SharedTablesIntact

\* what holds of the claim in every state: the lock, the counter and the
\* scratch slots
C22_LockAndCounter == PbLockDiscipline /\ PbCounterCounts /\ OwnCdfSlot

(***************************************************************************)
(* C24: the names after -d                                                 *)
(***************************************************************************)
\* find_motif_dupes has returned under -d
motifs_deduped ==
  /\ args.dedup
  /\ exit_code = "none"
  /\ main_pc \notin {"idle", "start"}

\* find_seq_dupes has returned under -d
seqs_deduped ==
  /\ args.dedup
  /\ exit_code = "none"
  /\ main_pc \in {"header", "low_mem", "low_mem_seq", "create", "join"}

MotifNamesDistinct ==
  motifs_deduped =>
    \A i, j \in 1..Len(motifs) : i # j => motifs[i].name # motifs[j].name

SeqNamesDistinct ==
  seqs_deduped =>
    \A i, j \in 1..Len(seq_names) : i # j => seq_names[i] # seq_names[j]

\* C24: when deduplication with -d is over, the motif names are pairwise
\* distinct and the sequence names are pairwise distinct: a name made by
\* appending __N<i> equals no other name, original or renamed.
C24_NamesDistinctAfterDedup == MotifNamesDistinct /\ SeqNamesDistinct

\* what the renaming does reach: two names that were equal are not equal
\* afterwards, unless the later one is the last motif
C24_RenamedApart ==
  /\ seqs_deduped =>
       \A i, j \in 1..Len(seq_names) :
         (i < j /\ argv.s[i].name = argv.s[j].name) => seq_names[i] # seq_names[j]
  /\ motifs_deduped =>
       \A i, j \in 1..Len(motifs) :
         (i < j /\ j < Len(motifs) /\ argv.m[i].name = argv.m[j].name)
           => motifs[i].name # motifs[j].name

(***************************************************************************)
(* C25: the buffer of a renamed sequence name                              *)
(***************************************************************************)
\* the original names of the sequence file
file_names == [i \in 1..Len(argv.s) |-> argv.s[i].name]

\* C25: when -d renames a duplicate sequence name, __N<i> is written inside
\* the memory allocated for that name: the new name and its terminator fit
\* the buffer that holds them, and a name whose new form does not fit is
\* rejected, not written.
C25_SuffixInsideBuffer ==
  seqs_deduped =>
    \A i \in seq_renamed(file_names) :
      Len(seq_names[i]) + 1 <= seq_name_alloc(Len(file_names[i]), 0)

\* what dedup_char_array does keep: the new name fits SEQ_NAME_MAX_CHAR
C25_SuffixInsideMaxChar ==
  seqs_deduped =>
    \A i \in seq_renamed(file_names) :
      /\ seq_names[i] = file_names[i] \o "__N" \o ToString(i)
      /\ Len(seq_names[i]) + 1 <= SEQ_NAME_MAX_CHAR

(***************************************************************************)
(* C26: MaxPossibleHits                                                    *)
(***************************************************************************)
\* the number of windows of a motif of mot_size positions on seq_size bases
windows_of(seq_size, mot_size) ==
  IF seq_size - mot_size + 1 > 0 THEN seq_size - mot_size + 1 ELSE 0

RECURSIVE SumOver(_, _)
SumOver(f, S) ==
  IF S = {} THEN 0
  ELSE LET x == CHOOSE y \in S : TRUE IN f[x] + SumOver(f, S \ {x})

\* the sum over all motifs i and sequences j of max(0, n_j - L_i + 1)
all_windows ==
  LET pairs == (1..Len(motifs)) \X (1..Len(seq_sizes))
  IN SumOver([p \in pairs |-> windows_of(seq_sizes[p[2]], motifs[p[1]].size)], pairs)

\* the header lines are in files.o (MaxPossibleHits is printed without -x)
header_printed == out # <<>> /\ out[1].kind = "header" /\ ~args.use_bed

\* C26: MaxPossibleHits is the sum over all motifs i and sequences j of
\* max(0, n_j - L_i + 1), twice that when both strands are scanned; a
\* sequence shorter than a motif adds 0 and the sum does not wrap around.
C26_MaxPossibleHits ==
  header_printed =>
    out[1].max_possible_hits = (IF args.scan_rc THEN 2 ELSE 1) * all_windows

\* the same when no sequence is shorter than a motif by more than one
C26_MaxPossibleHitsLongSeqs ==
  (/\ header_printed
   /\ \A i \in 1..Len(motifs), j \in 1..Len(seq_sizes) :
        seq_sizes[j] + 1 >= motifs[i].size) =>
    out[1].max_possible_hits = (IF args.scan_rc THEN 2 ELSE 1) * all_windows

(***************************************************************************)
(* Claims about yamshuf                                                    *)
(***************************************************************************)

\* C1: once the Euler shuffle of a sequence S with |S| >= 2k has been
\* written, the written sequence has the same count of every k-mer as S,
\* whatever the random choices were.
C1_EulerPreservesKmers ==
  (shuf_pc = "done" /\ k > 1 /\ ~use_linear) =>
    count_kmers(written, Size(seq_in), k) = count_kmers(seq_in, Size(seq_in), k)

\* C15: the k = 1 shuffle is the classical Fisher-Yates shuffle: at step i
\* (0 <= i <= len - 2) the swap partner is drawn from all the positions
\* i .. len - 1, so that every permutation of the positions can come out.
C15_FisherYatesPartners ==
  (shuf_pc = "fisher_yates" /\ loop_i < Size(seq) - 1) =>
    fisher_yates_partners(loop_i, Size(seq)) = loop_i..(Size(seq) - 1)

\* what the loop bound l = len - 1 does instead: the last character of the
\* input is never moved
FisherYatesLastStays ==
  (shuf_pc = "done" /\ k = 1) =>
    written[Size(seq_in) - 1] = seq_in[Size(seq_in) - 1]

(***************************************************************************)
(* Claims about yamscan                                                    *)
(***************************************************************************)
\* set_threshold has run on motifs[m]
Thresholded(m) ==
  CASE main_pc = "done" -> TRUE
    [] main_pc \in {"print_motifs", "low_mem"} -> m <= loop_m
    [] main_pc = "low_mem_seq" -> m <= loop_m + 1
    [] main_pc \in {"create", "join"} ->
         LET t == motifs[m].thread
         IN \/ worker_pc[t] \in {"returned", "joined"}
            \/ worker_pc[t] # "none" /\ worker_i[t] > m - 1
            \/ worker_i[t] = m - 1
                 /\ worker_pc[t] \in {"score", "lock", "unlock", "next"}
    [] OTHER -> FALSE

\* the p-value of the integer score x in the CDF c of the motif, 0 beyond
\* the last entry of the CDF
cdf_at(motif, c, x) ==
  IF x - motif.cdf_offset \in 0..(motif.cdf_size - 1)
    THEN c[x - motif.cdf_offset] ELSE 0

\* the smallest score x from cdf_offset on with cdf[x - cdf_offset] < p
smallest_score_below(motif, c, p) ==
  MinOf({x \in motif.cdf_offset..(motif.cdf_offset + motif.cdf_size) :
           cdf_at(motif, c, x) < p})

\* C2 as stated: after set_threshold (default mode: no -0, no -1) the threshold is
\* INT_MAX when the p-value of the motif's maximum score is not below the
\* requested p-value, and otherwise the smallest score x with
\* cdf[x - cdf_offset] < p_value.
C2_ThresholdAsStated ==
  \A m \in 1..Len(motifs) :
    (Thresholded(m) /\ ~args.thresh0 /\ ~has_consensus) =>
      LET motif == motifs[m]
          c == fill_cdf(motif, args.bkg)
      IN motif.threshold =
           IF cdf_at(motif, c, motif.max_score) >= args.pvalue
             THEN INT_MAX
             ELSE smallest_score_below(motif, c, args.pvalue)

\* C2, amended: after set_threshold without -0 and -1, the threshold is INT_MAX
\* exactly when cdf[max_score - cdf_offset] exceeds 1.0001 times the
\* requested p-value; otherwise it is the smallest score x >= cdf_offset
\* with cdf[x - cdf_offset] < p_value, the CDF counting as 0 past its last
\* entry (so max_score + 1 inside the tolerance band); with -0 it is 0.
C2_Threshold ==
  \A m \in 1..Len(motifs) :
    (Thresholded(m) /\ ~has_consensus) =>
      LET motif == motifs[m]
          c == fill_cdf(motif, args.bkg)
          p == args.pvalue
          min_pvalue == cdf_at(motif, c, motif.max_score)
      IN motif.threshold =
           IF args.thresh0 THEN 0
           ELSE IF min_pvalue > p /\ min_pvalue - p > p \div 10000 THEN INT_MAX
           ELSE smallest_score_below(motif, c, p)

\* a motif whose best p-value is above the requested one, but within the
\* tolerance, has been given a finite threshold
C2_Witness ==
  \E m \in 1..Len(motifs) :
    /\ Thresholded(m)
    /\ ~args.thresh0
    /\ cdf_at(motifs[m], fill_cdf(motifs[m], args.bkg), motifs[m].max_score)
         > args.pvalue
    /\ motifs[m].threshold = motifs[m].max_score + 1

\* the motif's hit records in the output, in output order
motif_out(mi) ==
  SelectSeq(SelectSeq(out, LAMBDA r : r.kind = "hit"),
            LAMBDA r : r.motif_i = mi)

complement(c) ==
  CASE c \in {"A"} -> "T"
    [] c \in {"C"} -> "G"
    [] c \in {"G"} -> "C"
    [] c \in {"T", "U"} -> "A"
    [] c \in {"a"} -> "t"
    [] c \in {"c"} -> "g"
    [] c \in {"g"} -> "c"
    [] c \in {"t", "u"} -> "a"
    [] OTHER -> "N"

\* the score of the window of size L at offset i of s, on the forward
\* strand and on the reverse complement of the window
RECURSIVE window_score(_, _, _)
window_score(motif, w, pos) ==
  IF pos = motif.size THEN 0
  ELSE motif.pwm[char2Xindex(w[pos + 1]) + pos * 5]
         + window_score(motif, w, pos + 1)

forward_window(motif, s, i) == [pos \in 1..motif.size |-> s[i + pos]]
reverse_window(motif, s, i) ==
  [pos \in 1..motif.size |-> complement(s[i + motif.size + 1 - pos])]

\* C3: a finished scan without BED ranges has printed, for a motif of size
\* L with a finite threshold and a sequence of length n, one forward hit for
\* every window start i in [0, n-L] whose forward score exceeds
\* threshold - 1 and no other forward hit, and with reverse scanning on the
\* same for the reverse-complement score and the - strand; a sequence with
\* n < L gets no hit and the run still succeeds.
C3_HitsAreTheWindowsAboveThreshold ==
  (main_pc = "done" /\ has_seqs /\ ~args.use_bed) =>
    /\ exit_code = "EXIT_SUCCESS"
    /\ \A m \in 1..Len(motifs) : \A j \in 1..Len(seq_names) :
         LET motif == motifs[m]
             s == argv.s[j].s
             n == Len(s)
             recs == SelectSeq(motif_out(m - 1), LAMBDA r : r.seq_i = j - 1)
             printed(o) == {recs[x].start - 1 : x \in {y \in 1..Len(recs) :
                                                        recs[y].strand = o}}
             fwd == {i \in 0..(n - motif.size) :
                       window_score(motif, forward_window(motif, s, i), 0)
                         > motif.threshold - 1}
             rev == {i \in 0..(n - motif.size) :
                       window_score(motif, reverse_window(motif, s, i), 0)
                         > motif.threshold - 1}
         IN IF motif.threshold = INT_MAX
              THEN recs = <<>>
              ELSE /\ printed("+") = fwd
                   /\ printed("-") = IF args.scan_rc THEN rev ELSE {}
                   /\ Len(recs) = Cardinality(printed("+")) + Cardinality(printed("-"))
                   /\ n < motif.size => recs = <<>>

\* a finished scan with hits on both strands and a sequence shorter than
\* one of the motifs
C3_Witness ==
  /\ main_pc = "done" /\ has_seqs /\ ~args.use_bed
  /\ \E x \in 1..Len(out) : out[x].kind = "hit" /\ out[x].strand = "-"
  /\ \E x \in 1..Len(out) : out[x].kind = "hit" /\ out[x].strand = "+"
  /\ \E m \in 1..Len(motifs) : \E j \in 1..Len(seq_names) :
       seq_sizes[j] < motifs[m].size /\ motifs[m].threshold # INT_MAX

\* the orientations a BED strand selects
strand_orientations(strand) ==
  CASE strand = "+" -> {"+"}
    [] strand = "-" -> {"-"}
    [] OTHER -> {"+", "-"}

\* C4: a finished scan with BED ranges has evaluated, for every range
\* [start, end) with strand s and every scored motif of size L <= end - start,
\* exactly the windows of the range's sequence with start offset in
\* [start, end - L], in the orientations s selects, and no other window
\* (none on a sequence without a range).
C4_BedWindows ==
  (main_pc = "done" /\ args.use_bed) =>
    evaluated =
      UNION { { <<m - 1, bed[b].seq_index, i, o>> :
                  i \in bed[b].start..(bed[b].end_ - motifs[m].size),
                  o \in strand_orientations(bed[b].strand) } :
              m \in {x \in 1..Len(motifs) : motifs[x].threshold # INT_MAX},
              b \in 1..Len(bed) }

\* a motif name occurs more than once in the motif file
HasDuplicateMotifNames ==
  \E i, j \in 1..Len(argv.m) : i < j /\ argv.m[i].name = argv.m[j].name

\* C5: with duplicate motif names and no -d the scanner never gets past
\* loading the motifs and exits with a failure; with -d every motif loaded
\* after an earlier one of the same name, at 1-based index i, is named
\* name__N<i> and the others keep their names.
C5_DuplicateMotifNames ==
  HasDuplicateMotifNames =>
    IF ~argv.d
      THEN /\ main_pc \in {"start", "exited"}
           /\ main_pc = "exited" => exit_code = "EXIT_FAILURE"
      ELSE main_pc \notin {"start", "exited"} =>
             \A i \in 1..Len(motifs) :
               motifs[i].name =
                 IF \E h \in 1..(i - 1) : argv.m[h].name = argv.m[i].name
                   THEN argv.m[i].name \o "__N" \o ToString(i)
                   ELSE argv.m[i].name

\* lexicographic <= on tuples of integers of the same length
RECURSIVE lex_leq(_, _)
lex_leq(a, b) ==
  IF a = <<>> THEN TRUE
  ELSE IF Head(a) # Head(b) THEN Head(a) < Head(b)
  ELSE lex_leq(Tail(a), Tail(b))

\* the records of every motif are printed in ascending order of key
AscendingBy(key(_)) ==
  \A mi \in 0..(Len(motifs) - 1) :
    LET recs == motif_out(mi)
    IN \A x \in 1..(Len(recs) - 1) : lex_leq(key(recs[x]), key(recs[x + 1]))

\* C6 as stated: in every mode the output records of a motif are in
\* ascending (sequence index, offset) order.
C6_OrderAsStated ==
  AscendingBy(LAMBDA r : <<r.seq_i, r.start>>)

\* C6, amended: without BED ranges the records of a motif are in ascending
\* (sequence index, offset) order, with one worker or several, low-memory or
\* in memory; with BED ranges they follow the order of the ranges in the
\* BED file: ascending (range index, offset) in memory, and ascending
\* (sequence index, range index, offset) in the low-memory loop.
C6_Order ==
  IF ~args.use_bed THEN AscendingBy(LAMBDA r : <<r.seq_i, r.start>>)
  ELSE IF main_pc \in {"low_mem", "low_mem_seq"} \/ (main_pc = "done" /\ args.low_mem)
    THEN AscendingBy(LAMBDA r : <<r.seq_i, r.bed_i, r.start>>)
    ELSE AscendingBy(LAMBDA r : <<r.bed_i, r.start>>)

\* a motif has records on two sequences, printed by one of several workers
C6_Witness ==
  /\ main_pc = "done"
  /\ args.nthreads > 1
  /\ ~args.use_bed
  /\ \E mi \in 0..(Len(motifs) - 1) :
       LET recs == motif_out(mi)
       IN \E x \in 1..(Len(recs) - 1) : recs[x].seq_i < recs[x + 1].seq_i

RECURSIVE Concat(_, _, _)
Concat(f, lo, hi) == IF lo > hi THEN <<>> ELSE f[lo] \o Concat(f, lo + 1, hi)

\* what one pass over the input prints for motif mi (0-based) alone: the
\* calls of the loop that scans it, in the loop's order
records_of_motif(mi) ==
  LET motif == motifs[mi + 1]
      c == fill_cdf(motif, args.bkg)
      per_seq == [j \in 1..Len(seq_names) |->
                    IF args.use_bed
                      THEN low_mem_bed(motif, mi, c, argv.s[j].s, j - 1, 1).recs
                      ELSE score_seq(motif, mi, c, j - 1, seq_names[j], argv.s[j].s,
                                     seq_sizes[j], args.scan_rc).recs]
      per_range == [b \in 1..Len(bed) |->
                      score_seq_in_bed(motif, mi, c, argv.s[bed[b].seq_index + 1].s,
                                       b - 1, bed[b], seq_names).recs]
  IN IF args.use_bed /\ ~args.low_mem
       THEN Concat(per_range, 1, Len(bed))
       ELSE Concat(per_seq, 1, Len(seq_names))

\* the records of all motifs, motif after motif
records_in_motif_order ==
  Concat([m \in 1..Len(motifs) |-> records_of_motif(m - 1)], 1, Len(motifs))

\* C7 as stated: the complete sequence of output records of a finished scan
\* is the same in every execution: it is the one a run that scans motif
\* after motif prints.
C7_SameOutputAsStated ==
  (main_pc = "done" /\ has_seqs) => Tail(out) = records_in_motif_order

\* C7, amended: in every execution of a finished scan the records of each
\* motif are the same sequence and nothing else is printed after the
\* header; with one worker (or the low-memory loop) the complete output is
\* the same in every execution.  With several workers the records of
\* different motifs interleave differently from run to run.
C7_SameOutput ==
  (main_pc = "done" /\ has_seqs) =>
    /\ \A mi \in 0..(Len(motifs) - 1) : motif_out(mi) = records_of_motif(mi)
    /\ Len(out) = 1 + Len(records_in_motif_order)
    /\ args.nthreads = 1 => Tail(out) = records_in_motif_order

\* a finished scan of several workers whose records of different motifs
\* came out interleaved
C7_Witness ==
  /\ main_pc = "done"
  /\ has_seqs
  /\ args.nthreads > 1
  /\ Tail(out) # records_in_motif_order
  /\ \E x \in 2..(Len(out) - 1) : out[x].motif_i > out[x + 1].motif_i

Min(a, b) == IF a < b THEN a ELSE b

\* C8: once the threads of an in-memory scan have been created their
\* number is min(-j value, number of motifs).
C8_WorkerCount ==
  (main_pc \in {"join", "done"} /\ has_seqs /\ ~args.low_mem) =>
    Cardinality({t \in Workers : worker_pc[t] # "none"})
      = Min(argv.j, Len(motifs))

\* C9: the shared motif, sequence and CDF tables are freed only while no
\* worker exists or all workers have been joined.
C9_TeardownAfterJoin ==
  freed => \A t \in Workers : worker_pc[t] \in {"none", "joined"}

\* C10: the low-memory loop runs only with one thread and a sequence file
\* that is not stdin, and once the thread count is settled low-memory mode
\* is off whenever there are several threads or the sequences come from
\* stdin.
C10_LowMemExclusive ==
  /\ main_pc \in {"low_mem", "low_mem_seq"} => (args.nthreads = 1 /\ ~use_stdin)
  /\ (main_pc \in {"load_seqs", "header", "create", "join", "done"}
        /\ (args.nthreads > 1 \/ use_stdin)) => ~args.low_mem

\* low-memory mode was left on by the command line and the scan runs its
\* threads in memory, with several threads and with stdin
C10_Witness ==
  /\ ~argv.l
  /\ main_pc = "join"
  /\ args.nthreads > 1
  /\ use_stdin
  /\ \E x \in 1..Len(out) : out[x].kind = "hit"

(***************************************************************************)
(* C11: the stored BED ranges                                              *)
(***************************************************************************)
\* the BED ranges are stored: read_bed, fill_bed_seq_indices and
\* check_bed_ranges have returned
BedLoaded == bed # <<>>

bed_seq_size(i) == seq_sizes[bed[i].seq_index + 1]

trim_warning(i) == [msg |-> "Warning: Trimming range", n |-> i]

\* every stored range lies inside its sequence, ranges that fit are stored
\* as read, and a file with a range of start >= end ends the run
BedRangesInBounds ==
  /\ \A i \in 1..Len(bed) :
       /\ 0 <= bed[i].start
       /\ bed[i].start < bed[i].end_
       /\ bed[i].end_ <= bed_seq_size(i)
       /\ bed[i].start = argv.x[i].start
       /\ bed[i].end_ = IF argv.x[i].end_ > bed_seq_size(i)
                          THEN bed_seq_size(i) ELSE argv.x[i].end_
  /\ (/\ args.use_bed
      /\ main_pc \notin {"start", "threads", "load_seqs"}
      /\ \E i \in 1..Len(argv.x) : argv.x[i].start >= argv.x[i].end_)
       => (exit_code = "EXIT_FAILURE" /\ ~BedLoaded)

\* C11 as stated: after BED loading and range checking every stored region
\* satisfies 0 <= start < end <= size of its sequence, a region with
\* start >= end is fatal, and every region whose end exceeds the sequence
\* size is trimmed to the sequence size with a warning.
C11_BedRangesAsStated ==
  /\ BedRangesInBounds
  /\ BedLoaded =>
       \A i \in 1..Len(bed) :
         (trim_warning(i) \in stderr_log) <=> (argv.x[i].end_ > bed_seq_size(i))

\* C11, amended: after BED loading and range checking every stored region
\* satisfies 0 <= start < end <= size of its sequence, a region with
\* start >= end is fatal, and a region whose end exceeds the sequence size is
\* trimmed to the sequence size; the trimming is reported on stderr exactly
\* when -v (or -w) was given.
C11_BedRanges ==
  /\ BedRangesInBounds
  /\ BedLoaded =>
       \A i \in 1..Len(bed) :
         (trim_warning(i) \in stderr_log)
           <=> (args.v /\ argv.x[i].end_ > bed_seq_size(i))

\* a range was trimmed and reported
C11_Witness ==
  /\ BedLoaded
  /\ \E i \in 1..Len(bed) :
       /\ argv.x[i].end_ > bed_seq_size(i)
       /\ bed[i].end_ = bed_seq_size(i)
       /\ trim_warning(i) \in stderr_log

(***************************************************************************)
(* C12: windows with non-standard characters                               *)
(***************************************************************************)
\* a character the scanner maps to the ambiguity index 4
is_ambiguous(c) ==
  \/ c \notin {"A", "C", "G", "T", "U", "a", "c", "g", "t", "u"}
  \/ args.mask /\ c \in {"a", "c", "g", "t", "u"}

window_is_ambiguous(s, i, L) == \E pos \in 1..L : is_ambiguous(s[i + pos])

\* C12: no reported hit's window contains a character mapped to the ambiguity
\* index (any non-ACGTU character, or a lowercase letter when masking is on):
\* on both strands every such window scores below threshold - 1 for every
\* threshold the scanner has set, so it is skipped.
C12_AmbiguousWindowsSkipped ==
  /\ \A x \in 1..Len(out) :
       out[x].kind = "hit" =>
         ~window_is_ambiguous(argv.s[out[x].seq_i + 1].s, out[x].start - 1,
                              out[x].end_ - out[x].start + 1)
  /\ \A m \in 1..Len(motifs) : \A j \in 1..Len(argv.s) :
       Thresholded(m) =>
         \A i \in 0..(Len(argv.s[j].s) - motifs[m].size) :
           window_is_ambiguous(argv.s[j].s, i, motifs[m].size) =>
             /\ score_subseq(motifs[m], argv.s[j].s, i) < motifs[m].threshold - 1
             /\ score_subseq_rev(motifs[m], argv.s[j].s, i)
                  < motifs[m].threshold - 1

\* a finished scan with masking on that printed a hit and skipped a window
\* with a lowercase letter, and one with -0 that skipped a window with N
C12_Witness ==
  /\ main_pc = "done"
  /\ \E x \in 1..Len(out) : out[x].kind = "hit"
  /\ \/ /\ args.mask
        /\ \E j \in 1..Len(argv.s) : \E i \in 1..Len(argv.s[j].s) :
             argv.s[j].s[i] \in {"a", "c", "g", "t", "u"}
     \/ /\ args.thresh0
        /\ \E j \in 1..Len(argv.s) : \E i \in 1..Len(argv.s[j].s) :
             argv.s[j].s[i] = "N"

(***************************************************************************)
(* C13: reverse-complement symmetry                                        *)
(***************************************************************************)
\* the reverse complement of a sequence
reverse_complement(s) == [p \in 1..Len(s) |-> complement(s[Len(s) + 1 - p])]

\* complete_motifs has filled pwm_rc
MotifsCompleted == main_pc \notin {"idle", "start"} /\ motifs # <<>>

\* C13: for every motif of size L and every sequence of length n >= L, the
\* reverse-strand score at offset i (pwm_rc applied to the sequence) equals
\* the forward score (pwm) of the reverse complement of the sequence at the
\* mirrored offset n - L - i.
C13_ReverseComplementSymmetry ==
  (MotifsCompleted /\ has_seqs) =>
    \A m \in 1..Len(motifs) : \A j \in 1..Len(argv.s) :
      LET s == argv.s[j].s
          n == Len(s)
          L == motifs[m].size
      IN \A i \in 0..(n - L) :
           score_subseq_rev(motifs[m], s, i)
             = score_subseq(motifs[m], reverse_complement(s), n - L - i)

\* a motif of two positions on a longer sequence where the two strands of
\* one window score differently
C13_Witness ==
  /\ MotifsCompleted /\ has_seqs
  /\ \E m \in 1..Len(motifs) : \E j \in 1..Len(argv.s) :
       /\ motifs[m].size = 2
       /\ Len(argv.s[j].s) > 2
       /\ \E i \in 0..(Len(argv.s[j].s) - 2) :
            score_subseq_rev(motifs[m], argv.s[j].s, i)
              # score_subseq(motifs[m], argv.s[j].s, i)

(***************************************************************************)
(* C14: consensus mode                                                     *)
(***************************************************************************)
\* the window of s at offset i spells the consensus: every base is one the
\* IUPAC code at its position stands for
matches_consensus(s, i) ==
  \A pos \in 1..Len(argv.one.letters) :
    /\ char2index(s[i + pos]) < 4
    /\ consensus2probs[consensus2index(argv.one.letters[pos]) + 1]
                      [char2index(s[i + pos]) + 1] > 0

\* the probability, under the uniform background, that a window spells the
\* consensus: the product over the positions of (bases of the code) / 4
RECURSIVE consensus_probability(_)
consensus_probability(pos) ==
  IF pos > Len(argv.one.letters) THEN ONE
  ELSE (consensus_probability(pos + 1) \div 4)
         * Cardinality({b \in 1..4 :
             consensus2probs[consensus2index(argv.one.letters[pos]) + 1][b] > 0})

\* the forward hits a finished consensus scan has printed for the windows
\* that spell the consensus
consensus_hits(j, i) ==
  {x \in 1..Len(out) :
     /\ out[x].kind = "hit"
     /\ out[x].seq_i = j - 1
     /\ out[x].strand = "+"
     /\ out[x].start = i + 1
     /\ out[x].end_ = i + Len(argv.one.letters)}

MAX_MOTIF_SIZE == 250
MIN_BKG_VALUE == 1

Error(m) == [level |-> "Error", msg |-> m]
Warning(m) == [level |-> "Warning", msg |-> m]

VEC_MIN(b) ==
  CHOOSE m \in {b[i] : i \in 1..4} : \A i \in 1..4 : m <= b[i]

\* -1000 is the -1.0 of a value that was not given; args.bkg[i] is the
\* fraction num[i] / den
check_and_load_bkg(b) ==
  IF \E i \in 1..4 : b[i] = -1000
    THEN [ok |-> FALSE, bkg |-> <<>>,
          err |-> <<Error("Too few background values found (need 4).")>>]
    ELSE LET b2 == IF VEC_MIN(b) < MIN_BKG_VALUE
                     THEN [i \in 1..4 |-> b[i] + MIN_BKG_VALUE]
                     ELSE b
             sum == b2[1] + b2[2] + b2[3] + b2[4]
         IN [ok |-> TRUE, bkg |-> [num |-> b2, den |-> sum], err |-> <<>>]

\* -b v1,v2,...: the value before each comma goes to b[0], b[1], b[2], and
\* what follows the last comma goes to b[3]
parse_user_bkg(u) ==
  IF Len(u) > 4
    THEN [ok |-> FALSE, bkg |-> <<>>,
          err |-> <<Error("Too many background values provided (need 4).")>>]
    ELSE check_and_load_bkg([i \in 1..4 |->
           IF i = 4 THEN u[Len(u)]
           ELSE IF i < Len(u) THEN u[i] ELSE -1000])

\* args.bkg before any of this
DefaultBkg == [num |-> <<250, 250, 250, 250>>, den |-> 1000]

Line(kind, n) == [kind |-> kind, n |-> n, vals |-> <<>>]
BkgLine(vals) == [kind |-> "bkg", n |-> 0, vals |-> vals]
Rows(n) == [i \in 1..n |-> Line("row", 0)]

\* -1 <consensus>: its length, and the place of its first letter that is not
\* an IUPAC letter (0 when there is none)
NoConsensus == [size |-> 0, unknown |-> 0]

\* -m <file>: tabs says whether the header lines hold tabs
MotifFile(tabs, lines) ==
  [b |-> <<>>, tabs |-> tabs, lines |-> lines, consensus |-> NoConsensus]
ConsensusOnly(size, unknown) ==
  [b |-> <<>>, tabs |-> FALSE, lines |-> <<>>,
   consensus |-> [size |-> size, unknown |-> unknown]]

\* the locals of read_meme, read_homer, read_jaspar and read_hocomoco;
\* fmt is
\* motif_info.fmt, motif_i is Len(read_motifs) - 1, and -1 stands for
\* (uint64_t) -1
InitLocals ==
  [fmt |-> "FMT_UNKNOWN", l_p_m_L |-> 0, bkg_let_freqs_L |-> 0, pos_i |-> -1, row_i |-> -1,
   alph_detected |-> FALSE, strand_detected |-> FALSE, live_motif |-> FALSE,
   ready_to_start |-> FALSE, line_freed |-> FALSE]

\* add_motif, then the name parser: header_len is the length of the name in
\* the file, name_len the number of characters copied to motif->name
new_motif(header_len, name_len, num) ==
  [header_len |-> header_len, name_len |-> name_len, size |-> 0,
   file_line_num |-> num]

\* parse_meme_name, parse_homer_name, parse_jaspar_name and the loop of
\* add_consensus_motif copy the name and its terminator whatever its length
name_overflow(n) == IF n + 1 > MAX_NAME_SIZE THEN {"name_overflow"} ELSE {}

\* set_score at position pos writes pwm[pos * 5 + 0 .. pos * 5 + 3]
pwm_overflow(pos) == IF pos * 5 + 3 >= MAX_MOTIF_SIZE THEN {"pwm_overflow"} ELSE {}

\* the name loop of read_hocomoco stops at line[MAX_NAME_SIZE - 1]
hocomoco_name_len(n) == IF n < MAX_NAME_SIZE - 1 THEN n ELSE MAX_NAME_SIZE - 1

set_size(ms, size) == [ms EXCEPT ![Len(ms)].size = size]

\* what one pass of a reader's loop, or its end, does
Step(exit, l, ms, bkg, err, ub) ==
  [exit |-> exit, locals |-> l, motifs |-> ms, bkg |-> bkg, err |-> err,
   ub |-> ub]

\* getline and free(line) after the reader has freed the line itself
getline_ub(l) == IF l.line_freed THEN {"use_after_free"} ELSE {}

\* add_motif_ppm_column of read_meme and read_homer
add_motif_ppm_column(line) ==
  IF line.kind = "row" THEN <<>>
  ELSE IF line.kind = "badrow"
    THEN <<Error("Position does not add up to 1")>>
    ELSE <<Error("Failed to parse probability value for motif")>>

\* add_motif_pcm_column of read_hocomoco
add_motif_pcm_column(line) ==
  IF line.kind = "row" THEN <<>>
  ELSE IF line.kind = "badrow"
    THEN <<Error("PCM row adds up to less than 1")>>
    ELSE <<Error("Failed to parse probability value for motif")>>

\* get_meme_bkg
get_meme_bkg(line, use_user_bkg) ==
  IF use_user_bkg THEN [ok |-> TRUE, bkg |-> <<>>, err |-> <<>>]
  ELSE IF line.kind # "bkg"
    THEN [ok |-> FALSE, bkg |-> <<>>,
          err |-> <<Error("Expected first character of background line to be 'A'")>>]
    ELSE check_and_load_bkg(line.vals)

\* one pass of the loop of read_meme; num is line_num after line_num++
read_meme_line(l, ms, bkg, num, line, use_user_bkg) ==
  LET ub == getline_ub(l)
      l0 == l
  IN
  IF line.kind = "bkgdef"
    THEN IF l.bkg_let_freqs_L # 0
           THEN Step(FALSE, [l0 EXCEPT !.line_freed = TRUE], ms, bkg,
                     <<Error("Detected multiple background definition lines in MEME file")>>,
                     ub)
           ELSE IF Len(ms) > 0
             THEN Step(TRUE, l0, ms, bkg,
                       <<Error("Found background definition line after motifs")>>, ub)
             ELSE Step(FALSE, [l0 EXCEPT !.bkg_let_freqs_L = num], ms, bkg, <<>>, ub)
  ELSE IF l.bkg_let_freqs_L # 0 /\ l.bkg_let_freqs_L = num - 1
    THEN LET r == get_meme_bkg(line, use_user_bkg)
         IN IF ~r.ok THEN Step(TRUE, l0, ms, bkg, r.err, ub)
            ELSE Step(FALSE, l0, ms, IF use_user_bkg THEN bkg ELSE r.bkg, <<>>, ub)
  ELSE IF line.kind = "ALPHABET"
    THEN IF l.alph_detected
           THEN Step(TRUE, l0, ms, bkg,
                     <<Error("Detected multiple alphabet definition lines in MEME file")>>, ub)
           ELSE IF Len(ms) > 0
             THEN Step(TRUE, l0, ms, bkg,
                       <<Error("Found alphabet definition line after motifs")>>, ub)
             ELSE IF line.n = 20
               THEN Step(TRUE, l0, ms, bkg, <<Error("Detected protein alphabet")>>, ub)
               ELSE Step(FALSE, [l0 EXCEPT !.alph_detected = TRUE], ms, bkg, <<>>, ub)
  ELSE IF line.kind = "strands"
    THEN IF l.strand_detected
           THEN Step(TRUE, l0, ms, bkg,
                     <<Error("Detected multiple strand information lines in MEME file")>>, ub)
           ELSE IF Len(ms) > 0
             THEN Step(TRUE, l0, ms, bkg,
                       <<Error("Found strand information line after motifs")>>, ub)
             ELSE Step(FALSE, [l0 EXCEPT !.strand_detected = TRUE], ms, bkg, <<>>, ub)
  ELSE IF line.kind = "MOTIF"
    THEN Step(FALSE, [l0 EXCEPT !.pos_i = 0],
              Append(ms, new_motif(line.n, line.n, num)), bkg, <<>>,
              ub \cup name_overflow(line.n))
  ELSE IF line.kind = "lpm"
    THEN IF l.pos_i # 0
           THEN Step(TRUE, l0, ms, bkg, <<Error("Possible malformed MEME motif")>>, ub)
           ELSE Step(FALSE, [l0 EXCEPT !.l_p_m_L = num, !.live_motif = TRUE],
                     ms, bkg, <<>>, ub)
  ELSE IF l.live_motif
    THEN IF line.kind = "blank"
           THEN Step(FALSE, [l0 EXCEPT !.live_motif = FALSE], ms, bkg, <<>>, ub)
           ELSE IF num = l.l_p_m_L + l.pos_i + 1
             THEN IF l.pos_i >= MAX_MOTIF_SIZE \div 5
                    THEN Step(TRUE, l0, ms, bkg, <<Error("Motif is too large")>>, ub)
                    ELSE IF add_motif_ppm_column(line) # <<>>
                      THEN Step(TRUE, l0, ms, bkg, add_motif_ppm_column(line), ub)
                      ELSE Step(FALSE, [l0 EXCEPT !.pos_i = l.pos_i + 1],
                                set_size(ms, l.pos_i + 1), bkg, <<>>,
                                ub \cup pwm_overflow(l.pos_i))
             ELSE Step(FALSE, [l0 EXCEPT !.live_motif = FALSE], ms, bkg, <<>>, ub)
  ELSE Step(FALSE, l0, ms, bkg, <<>>, ub)

\* the end of read_meme
read_meme_end(l, ms, bkg) ==
  IF Len(ms) = 0
    THEN Step(TRUE, l, ms, bkg,
              <<Error("Failed to detect any motifs in MEME file.")>>, getline_ub(l))
    ELSE Step(FALSE, l, ms, bkg, <<>>, getline_ub(l))

\* one pass of the loop of read_homer
read_homer_line(l, ms, bkg, num, line) ==
  IF line.kind = "header"
    THEN Step(FALSE, [l EXCEPT !.ready_to_start = TRUE, !.pos_i = 0],
              Append(ms, new_motif(line.n, line.n, num)), bkg, <<>>,
              name_overflow(line.n))
  ELSE IF line.kind # "blank" /\ l.ready_to_start
    THEN LET large == IF l.pos_i > MAX_MOTIF_SIZE \div 5
                        THEN <<Error("Motif is too large")>> ELSE <<>>
         IN IF add_motif_ppm_column(line) # <<>>
              THEN Step(TRUE, l, ms, bkg, large \o add_motif_ppm_column(line), {})
              ELSE Step(FALSE, [l EXCEPT !.pos_i = l.pos_i + 1],
                        set_size(ms, l.pos_i + 1), bkg, large,
                        pwm_overflow(l.pos_i))
  ELSE Step(FALSE, l, ms, bkg, <<>>, {})

\* one pass of the loop of read_hocomoco
read_hocomoco_line(l, ms, bkg, num, line) ==
  IF line.kind = "header"
    THEN Step(FALSE, [l EXCEPT !.ready_to_start = TRUE, !.pos_i = 0],
              Append(ms, new_motif(line.n, hocomoco_name_len(line.n), num)),
              bkg, <<>>, {})
  ELSE IF line.kind # "blank" /\ l.ready_to_start
    THEN LET large == IF l.pos_i > MAX_MOTIF_SIZE \div 5
                        THEN <<Error("Motif is too large")>> ELSE <<>>
         IN IF add_motif_pcm_column(line) # <<>>
              THEN Step(TRUE, l, ms, bkg, large \o add_motif_pcm_column(line), {})
              ELSE Step(FALSE, [l EXCEPT !.pos_i = l.pos_i + 1],
                        set_size(ms, l.pos_i + 1), bkg, large,
                        pwm_overflow(l.pos_i))
  ELSE Step(FALSE, l, ms, bkg, <<>>, {})

\* add_jaspar_row on a row "A [ c1 c2 ... cn ]" of n counts, each followed
\* by white space: the counts before the first error are stored
add_jaspar_row(m, line) ==
  IF line.kind # "jrow"
    THEN [err |-> <<Error("Couldn't find ACGTU in motif row names.")>>,
          size |-> m.size, ub |-> {}]
  ELSE IF line.n > MAX_MOTIF_SIZE
    THEN [err |-> <<Error("Motif has too many columns")>>, size |-> m.size,
          ub |-> pwm_overflow(MAX_MOTIF_SIZE - 1)]
  ELSE IF line.n = 0
    THEN [err |-> <<Error("Motif has an empty row.")>>, size |-> m.size, ub |-> {}]
  ELSE IF m.size # 0 /\ m.size # line.n
    THEN [err |-> <<Error("Motif has rows with differing numbers of counts.")>>,
          size |-> m.size, ub |-> pwm_overflow(line.n - 1)]
  ELSE [err |-> <<>>, size |-> line.n, ub |-> pwm_overflow(line.n - 1)]

jaspar_rows_error(l, ms) ==
  IF Len(ms) > 0 /\ l.row_i # 4
    THEN IF l.row_i < 4 THEN <<Error("Motif has too few rows")>>
                        ELSE <<Error("Motif has too many rows")>>
    ELSE <<>>

\* one pass of the loop of read_jaspar
read_jaspar_line(l, ms, bkg, num, line) ==
  IF line.kind = "header"
    THEN IF jaspar_rows_error(l, ms) # <<>>
           THEN Step(TRUE, [l EXCEPT !.ready_to_start = TRUE], ms, bkg,
                     jaspar_rows_error(l, ms), {})
           ELSE Step(FALSE, [l EXCEPT !.ready_to_start = TRUE, !.row_i = 0],
                     Append(ms, new_motif(line.n, line.n, num)), bkg, <<>>,
                     name_overflow(line.n))
  ELSE IF line.kind # "blank" /\ l.ready_to_start
    THEN LET r == add_jaspar_row(ms[Len(ms)], line)
             l2 == [l EXCEPT !.row_i = l.row_i + 1]
         IN Step(r.err # <<>>, l2, set_size(ms, r.size), bkg, r.err, r.ub)
  ELSE Step(FALSE, l, ms, bkg, <<>>, {})

\* the end of read_jaspar; the counts of a row of the files below have equal
\* column sums, so that pcm_to_pwm reports nothing
read_jaspar_end(l, ms, bkg) ==
  Step(jaspar_rows_error(l, ms) # <<>>, l, ms, bkg, jaspar_rows_error(l, ms), {})

\* the end of load_motifs, after complete_motifs
empty_motifs(ms) == Cardinality({i \in 1..Len(ms) : ms[i].size = 0})

\* fill_pwm_rc of complete_motifs writes pwm_rc[0 .. size * 5 - 1]
complete_motifs_ub(ms) ==
  UNION {pwm_overflow(ms[i].size - 1) : i \in {j \in 1..Len(ms) : ms[j].size > 0}}

RECURSIVE detect_from(_, _, _)
detect_from(file, i, jaspar_or_hocomoco) ==
  IF i > Len(file.lines) THEN "FMT_UNKNOWN"
  ELSE IF file.lines[i].kind = "blank"
    THEN detect_from(file, i + 1, jaspar_or_hocomoco)
  ELSE IF file.lines[i].kind = "version" THEN "FMT_MEME"
  ELSE IF jaspar_or_hocomoco
    THEN IF file.lines[i].kind = "jrow" THEN "FMT_JASPAR"
         ELSE IF file.tabs THEN "FMT_HOMER" ELSE "FMT_HOCOMOCO"
  ELSE detect_from(file, i + 1, file.lines[i].kind = "header")

detect_motif_fmt(file) == detect_from(file, 1, FALSE)

\* add_consensus_motif
add_consensus_name(c) ==
  LET large == IF c.size > MAX_MOTIF_SIZE \div 5
                 THEN <<Error("Consensus sequence is too large")>> ELSE <<>>
      m == [new_motif(c.size, c.size, 0) EXCEPT !.size = c.size]
  IN IF c.unknown # 0
       THEN Step(TRUE, InitLocals, <<m>>, DefaultBkg,
                 large \o <<Error("Encountered unknown letter in consensus")>>,
                 name_overflow(c.size) \cup
                   (IF c.unknown > 1 THEN pwm_overflow(c.unknown - 2) ELSE {}))
       ELSE Step(FALSE, InitLocals, <<m>>, DefaultBkg, large,
                 name_overflow(c.size) \cup pwm_overflow(c.size - 1))

Usage == [level |-> "Usage", msg |-> "Run yamscan -h to see usage."]

\* the effect of a step: badexit, or on to the position next
ApplyStep(r, consumed, next) ==
  /\ load_locals' = r.locals
  /\ read_motifs' = r.motifs
  /\ load_bkg' = r.bkg
  /\ load_ub' = load_ub \cup r.ub
  /\ line_num' = line_num + consumed
  /\ IF r.exit
       THEN /\ load_stderr' = load_stderr \o r.err \o <<Usage>>
            /\ load_exit' = "EXIT_FAILURE"
            /\ load_pc' = "exited"
       ELSE /\ load_stderr' = load_stderr \o r.err
            /\ load_exit' = load_exit
            /\ load_pc' = next
  /\ UNCHANGED <<varsShuf, varsScan, load_argv>>

has_consensus_arg == load_argv.consensus # NoConsensus

\* main: parse_user_bkg
MainParseUserBkg ==
  /\ load_pc = "start"
  /\ IF load_argv.b = <<>>
       THEN ApplyStep(Step(FALSE, load_locals, read_motifs, load_bkg, <<>>, {}),
                      0, "motifs")
       ELSE LET r == parse_user_bkg(load_argv.b)
            IN ApplyStep(Step(~r.ok, load_locals, read_motifs,
                              IF r.ok THEN r.bkg ELSE load_bkg, r.err, {}),
                         0, "motifs")

\* main with -1: the uniform background, add_consensus_motif
MainAddConsensus ==
  /\ load_pc = "motifs"
  /\ has_consensus_arg
  /\ ApplyStep(add_consensus_name(load_argv.consensus), 0, "done")

\* load_motifs: detect_motif_fmt
LoadMotifsDetect ==
  /\ load_pc = "motifs"
  /\ ~has_consensus_arg
  /\ LET fmt == detect_motif_fmt(load_argv)
     IN IF fmt = "FMT_UNKNOWN"
          THEN ApplyStep(Step(TRUE, load_locals, read_motifs, load_bkg,
                              <<Error("Failed to detect motif format.")>>, {}),
                         0, "read")
          ELSE ApplyStep(Step(FALSE, [InitLocals EXCEPT !.fmt = fmt], read_motifs,
                              load_bkg, <<>>, {}), 0, "read")

Reading(fmt) ==
  /\ load_pc = "read"
  /\ load_locals.fmt = fmt
  /\ line_num < Len(load_argv.lines)

AtEnd(fmt) ==
  /\ load_pc = "read"
  /\ load_locals.fmt = fmt
  /\ line_num = Len(load_argv.lines)

ReadMemeLine ==
  /\ Reading("FMT_MEME")
  /\ ApplyStep(read_meme_line(load_locals, read_motifs, load_bkg, line_num + 1,
                              load_argv.lines[line_num + 1], load_argv.b # <<>>),
               1, "read")

ReadMemeEnd ==
  /\ AtEnd("FMT_MEME")
  /\ ApplyStep(read_meme_end(load_locals, read_motifs, load_bkg), 0, "complete")

ReadHomerLine ==
  /\ Reading("FMT_HOMER")
  /\ ApplyStep(read_homer_line(load_locals, read_motifs, load_bkg, line_num + 1,
                               load_argv.lines[line_num + 1]), 1, "read")

ReadHomerEnd ==
  /\ AtEnd("FMT_HOMER")
  /\ ApplyStep(Step(FALSE, load_locals, read_motifs, load_bkg, <<>>, {}),
               0, "complete")

ReadJasparLine ==
  /\ Reading("FMT_JASPAR")
  /\ ApplyStep(read_jaspar_line(load_locals, read_motifs, load_bkg, line_num + 1,
                                load_argv.lines[line_num + 1]), 1, "read")

ReadJasparEnd ==
  /\ AtEnd("FMT_JASPAR")
  /\ ApplyStep(read_jaspar_end(load_locals, read_motifs, load_bkg), 0, "complete")

ReadHocomocoLine ==
  /\ Reading("FMT_HOCOMOCO")
  /\ ApplyStep(read_hocomoco_line(load_locals, read_motifs, load_bkg,
                                  line_num + 1, load_argv.lines[line_num + 1]),
               1, "read")

ReadHocomocoEnd ==
  /\ AtEnd("FMT_HOCOMOCO")
  /\ ApplyStep(Step(FALSE, load_locals, read_motifs, load_bkg, <<>>, {}),
               0, "complete")

\* load_motifs after the reader: complete_motifs, the count of empty motifs
LoadMotifsComplete ==
  /\ load_pc = "complete"
  /\ LET n == empty_motifs(read_motifs)
         ub == complete_motifs_ub(read_motifs)
     IN IF n = Len(read_motifs)
          THEN ApplyStep(Step(TRUE, load_locals, read_motifs, load_bkg,
                              <<Error("All parsed motifs are empty.")>>, ub),
                         0, "done")
          ELSE ApplyStep(Step(FALSE, load_locals, read_motifs, load_bkg,
                              IF n > 0 THEN <<Warning("Found empty motifs.")>>
                                       ELSE <<>>, ub),
                         0, "done")

\* once an undefined operation has been executed the process may be killed
\* at any later point
LoadUndefined ==
  /\ load_pc \in {"read", "complete"}
  /\ load_ub # {}
  /\ load_exit' = "SIGSEGV"
  /\ load_pc' = "exited"
  /\ UNCHANGED <<varsShuf, varsScan, load_argv, line_num, load_locals,
                 read_motifs, load_bkg, load_stderr, load_ub>>

Header(n) == Line("header", n)
JRows(rows, n) == [i \in 1..rows |-> Line("jrow", n)]
Uniform1000 == <<250, 250, 250, 250>>

MemeHead ==
  <<Line("version", 4), Line("blank", 0), Line("ALPHABET", 4),
    Line("strands", 2), Line("bkgdef", 0), BkgLine(Uniform1000),
    Line("blank", 0)>>

MemeFiles ==
  {MemeHead \o <<Line("MOTIF", 3), Line("lpm", 0)>> \o Rows(2)
     \o <<Line("blank", 0), Line("MOTIF", 4), Line("lpm", 0)>> \o Rows(1),
   <<Line("version", 4), Line("bkgdef", 0), BkgLine(<<0, 500, 250, 250>>),
     Line("MOTIF", 3), Line("lpm", 0)>> \o Rows(1),
   <<Line("version", 4), Line("bkgdef", 0), BkgLine(<<400, 400, 400, 800>>),
     Line("MOTIF", 3), Line("lpm", 0)>> \o Rows(1),
   <<Line("version", 4), Line("bkgdef", 0), BkgLine(<<300, 300, 400, -1000>>),
     Line("MOTIF", 3), Line("lpm", 0)>> \o Rows(1),
   <<Line("version", 4), Line("bkgdef", 0), BkgLine(Uniform1000),
     Line("bkgdef", 0), Line("MOTIF", 3), Line("lpm", 0)>> \o Rows(1),
   <<Line("version", 4), Line("bkgdef", 0), Line("MOTIF", 3), Line("lpm", 0)>>
     \o Rows(1),
   <<Line("version", 4), Line("MOTIF", 300), Line("lpm", 0)>> \o Rows(1),
   <<Line("version", 4), Line("MOTIF", 3), Line("lpm", 0)>> \o Rows(50),
   <<Line("version", 4), Line("MOTIF", 3), Line("lpm", 0)>> \o Rows(51),
   <<Line("version", 4), Line("MOTIF", 3), Line("lpm", 0)>> \o Rows(1)
     \o <<Line("blank", 0), Line("bkgdef", 0)>>,
   <<Line("version", 4), Line("MOTIF", 3), Line("lpm", 0)>> \o Rows(1)
     \o <<Line("lpm", 0)>>,
   <<Line("version", 4), Line("MOTIF", 3), Line("lpm", 0), Line("badrow", 0)>>,
   <<Line("version", 4), Line("ALPHABET", 20)>>,
   <<Line("version", 4), Line("ALPHABET", 4), Line("ALPHABET", 4)>>,
   <<Line("version", 4), Line("strands", 2), Line("strands", 2)>>,
   <<Line("version", 4), Line("lpm", 0)>>,
   <<Line("version", 4)>>,
   <<Line("MOTIF", 3), Line("lpm", 0)>> \o Rows(1)}

\* files of HOMER (with tabs) and of HOCOMOCO (without)
HeaderFiles ==
  {<<Header(3)>> \o Rows(2) \o <<Line("blank", 0), Header(4)>> \o Rows(1),
   <<Header(3)>> \o Rows(50),
   <<Header(3)>> \o Rows(51),
   <<Header(3)>> \o Rows(52),
   <<Header(255)>> \o Rows(1),
   <<Header(300)>> \o Rows(1),
   <<Header(3), Header(4)>> \o Rows(1),
   <<Header(3), Header(4)>>,
   <<Header(3), Line("badrow", 0)>>,
   <<Line("row", 0), Header(3)>> \o Rows(1),
   <<Header(3)>>}

JasparFiles ==
  {<<Header(3)>> \o JRows(4, 2) \o <<Line("blank", 0), Header(4)>> \o JRows(4, 3),
   <<Header(3)>> \o JRows(4, 50),
   <<Header(3)>> \o JRows(4, 51),
   <<Header(3)>> \o JRows(4, 251),
   <<Header(300)>> \o JRows(4, 2),
   <<Header(3)>> \o JRows(3, 2),
   <<Header(3)>> \o JRows(5, 2),
   <<Header(3)>> \o JRows(3, 2) \o <<Header(4)>> \o JRows(4, 2),
   <<Header(3)>> \o JRows(1, 2) \o JRows(1, 3),
   <<Header(3)>> \o JRows(1, 0),
   <<Header(3)>> \o JRows(1, 2) \o Rows(1)}

UserBkgs ==
  {Uniform1000, <<0, 500, 250, 250>>, <<100, 100, 100, 100>>,
   <<2, 332, 333, 333>>, <<300, 300, 400>>, <<200, 200, 200, 200, 200>>}

Consensuses ==
  {ConsensusOnly(4, 0), ConsensusOnly(4, 2), ConsensusOnly(50, 0),
   ConsensusOnly(51, 0), ConsensusOnly(300, 0)}

LoadInputsNoBkg ==
  {MotifFile(TRUE, f) : f \in MemeFiles \cup HeaderFiles \cup JasparFiles}
    \cup {MotifFile(FALSE, f) : f \in HeaderFiles}
    \cup Consensuses

\* -b with a file of every format and with -1
LoadInputsBkg ==
  {[a EXCEPT !.b = u] :
     a \in {MotifFile(TRUE, MemeHead \o <<Line("MOTIF", 3), Line("lpm", 0)>> \o Rows(1)),
            MotifFile(TRUE, <<Header(3)>> \o Rows(1)),
            MotifFile(FALSE, <<Header(3)>> \o Rows(1)),
            MotifFile(TRUE, <<Header(3)>> \o JRows(4, 2)),
            ConsensusOnly(4, 0)},
     u \in UserBkgs}

LoadInputs == LoadInputsNoBkg \cup LoadInputsBkg

\* the state of main before parse_user_bkg
InitLoad ==
  /\ ShufIdle
  /\ ScanIdle
  /\ load_argv \in LoadInputs
  /\ load_pc = "start"
  /\ line_num = 0
  /\ load_locals = InitLocals
  /\ read_motifs = <<>>
  /\ load_bkg = DefaultBkg
  /\ load_stderr = <<>>
  /\ load_exit = "none"
  /\ load_ub = {}

NextLoad ==
  \/ MainParseUserBkg
  \/ MainAddConsensus
  \/ LoadMotifsDetect
  \/ ReadMemeLine
  \/ ReadMemeEnd
  \/ ReadHomerLine
  \/ ReadHomerEnd
  \/ ReadJasparLine
  \/ ReadJasparEnd
  \/ ReadHocomocoLine
  \/ ReadHocomocoEnd
  \/ LoadMotifsComplete
  \/ LoadUndefined

SpecLoad == InitLoad /\ [][NextLoad]_vars

(***************************************************************************)
(* Claims about the background and the motif readers.                      *)
(***************************************************************************)
LoadFinished == load_pc = "done" /\ load_exit = "none"

\* C16: when scanning begins, every motif stored by a reader (MEME, HOMER,
\* JASPAR, HOCOMOCO) or by add_consensus_motif has between 1 and
\* MAX_MOTIF_SIZE / 5 = 50 positions.
C16_MotifSizeBounded ==
  LoadFinished =>
    \A i \in 1..Len(read_motifs) :
       read_motifs[i].size \in 1..(MAX_MOTIF_SIZE \div 5)

\* C17: a motif name longer than MAX_NAME_SIZE characters is an error in
\* every format: nothing is written past motif->name, and once such a name
\* has been read the process has exited with EXIT_FAILURE (so that it is
\* neither stored nor truncated).
C17_LongNameIsError ==
  /\ "name_overflow" \notin load_ub
  /\ \A i \in 1..Len(read_motifs) :
       read_motifs[i].header_len > MAX_NAME_SIZE => load_exit = "EXIT_FAILURE"

\* C18: once a line "Error: ..." has been written to stderr the process has
\* ended; no error is reported and then processing continues.
C18_ErrorsAreFatal ==
  (\E i \in 1..Len(load_stderr) : load_stderr[i].level = "Error")
    => load_exit # "none"

\* C19: once the background is loaded (-b, the MEME file, or the default),
\* the four values sum to 1 and each is at least MIN_BKG_VALUE = 0.001.
C19_BackgroundNormalised ==
  (load_pc \in {"motifs", "read", "complete", "done"}) =>
    /\ load_bkg.num[1] + load_bkg.num[2] + load_bkg.num[3] + load_bkg.num[4]
         = load_bkg.den
    /\ \A i \in 1..4 : load_bkg.num[i] * 1000 >= MIN_BKG_VALUE * load_bkg.den

(***************************************************************************)
(* Termination of shuffle_euler.                                           *)
(***************************************************************************)
EulerVertices == 0..(pow5(k - 1) - 1)

\* the vertices from which the walk of the first while loop can get to a
\* vertex of S: it leaves u by a letter b with kmer_tab[u * 5 + b] > 0
RECURSIVE can_reach(_)
can_reach(S) ==
  LET S2 == S \cup {u \in EulerVertices :
                      \E b \in cumsum_and_pick_next_letter(kmer_tab, u * 5) :
                         (b + next_index[u]) \in S}
  IN IF S2 = S THEN S ELSE can_reach(S2)

Routed == {u \in EulerVertices : invalid_vertex[u] # 0}

\* the first while loop can end: from the vertex the walk stands on, a
\* routed vertex can be reached
WalkCanReachRouted ==
  shuf_pc = "arborescence" => loop_u \in can_reach(Routed)

\* yamshuf is a sequential program: it keeps running while it can take a step
FairSpecShuf == SpecShuf /\ WF_vars(NextShuf)

\* C20: shuffle_euler terminates for every sequence with |S| >= 2k: every
\* run of yamshuf ends with the sequence written or skipped.  The runs in
\* which the random walk again and again stands on a vertex from which a
\* routed vertex can be reached, and never gets there, have probability 0
\* and are left out.
C20_EulerTerminates ==
  \/ <>(shuf_pc \in {"done", "skipped"})
  \/ []<>(shuf_pc = "arborescence" /\ loop_u \in can_reach(Routed))

(***************************************************************************)
(* C23: the two ends of the Euler shuffle                                  *)
(***************************************************************************)
\* the written sequence starts with the first (k-1)-mer of the input
\* (letters are compared as char2index reads them: t is written as T or U)
EulerKeepsStart ==
  (shuf_pc = "done" /\ k > 1 /\ ~use_linear) =>
    chars2kmer(written, k - 1, 0) = chars2kmer(seq_in, k - 1, 0)

\* the written sequence ends with the last k-mer of the input
EulerKeepsLastEdge ==
  (shuf_pc = "done" /\ k > 1 /\ ~use_linear) =>
    chars2kmer(written, k, Size(seq_in) - k) = chars2kmer(seq_in, k, Size(seq_in) - k)

\* the last character is the one thing of the last k-mer the walk never
\* writes
EulerKeepsLastChar ==
  (shuf_pc = "done" /\ k > 1 /\ ~use_linear) =>
    char2index(written[Size(seq_in) - 1]) = char2index(seq_in[Size(seq_in) - 1])

\* C23: for |S| >= 2k the Euler-shuffled output begins with the first
\* (k-1)-mer of S and its final k-mer, the last edge of the trail, is the
\* last k-mer of S.
C23_EulerEndpoints == EulerKeepsStart /\ EulerKeepsLastEdge

\* what holds of it: the first (k-1)-mer and the last character
C23_StartAndLastChar == EulerKeepsStart /\ EulerKeepsLastChar

(***************************************************************************)
(* C27: the low-memory loop against the in-memory scan                     *)
(***************************************************************************)
\* what the one worker of an in-memory scan prints for motif mi (0-based):
\* score_seq on every sequence, or score_seq_in_bed on every range, in the
\* order of scan_sub_process
in_memory_calls(mi) ==
  LET motif == motifs[mi + 1]
      c == fill_cdf(motif, args.bkg)
  IN IF args.use_bed
       THEN [b \in 1..Len(bed) |->
               score_seq_in_bed(motif, mi, c, argv.s[bed[b].seq_index + 1].s,
                                b - 1, bed[b], seq_names).recs]
       ELSE [j \in 1..Len(seq_names) |->
               score_seq(motif, mi, c, j - 1, seq_names[j], argv.s[j].s,
                         seq_sizes[j], args.scan_rc).recs]

in_memory_records_of_motif(mi) ==
  LET calls == in_memory_calls(mi) IN Concat(calls, 1, Len(calls))

\* the records of an in-memory scan with one worker
in_memory_records ==
  Concat([m \in 1..Len(motifs) |-> in_memory_records_of_motif(m - 1)],
         1, Len(motifs))

\* a scan with one worker has ended and has printed all its records
single_worker_done ==
  /\ main_pc = "done"
  /\ exit_code = "EXIT_SUCCESS"
  /\ has_seqs
  /\ args.nthreads = 1

\* C27 as stated: with one worker the low-memory loop prints the same hit
\* records in the same order as the in-memory scan, with any options.
C27_LowMemSameAsStated ==
  single_worker_done => Tail(out) = in_memory_records

\* C27, amended: with one worker and without BED ranges the low-memory loop
\* prints the same hit records in the same order as the in-memory scan;
\* with BED ranges it prints, for every motif and every range, the records
\* the in-memory scan prints for them and no others, but sequence after
\* sequence and not in the order of the BED file.
C27_LowMemRefines ==
  single_worker_done =>
    /\ ~args.use_bed => Tail(out) = in_memory_records
    /\ args.use_bed =>
         /\ Len(out) = 1 + Len(in_memory_records)
         /\ \A mi \in 0..(Len(motifs) - 1) : \A b \in 1..Len(bed) :
              SelectSeq(motif_out(mi), LAMBDA r : r.bed_i = b - 1)
                = in_memory_calls(mi)[b]

\* a low-memory scan has printed hits on two sequences
C27_Witness ==
  /\ single_worker_done
  /\ args.low_mem
  /\ ~args.use_bed
  /\ \E x, y \in 2..Len(out) : out[x].seq_i < out[y].seq_i

(***************************************************************************)
(* C28: fill_cdf and the null distribution of the score                    *)
(***************************************************************************)
RECURSIVE pow8(_)
pow8(n) == IF n = 0 THEN 1 ELSE 8 * pow8(n - 1)

\* the background weight (in 8^-(n-p)) of the words over positions p..n-1
\* whose shifted scores score - min add up to x
RECURSIVE word_mass(_, _, _, _, _)
word_mass(motif, bkg, n, p, x) ==
  IF p = n THEN (IF x = 0 THEN 1 ELSE 0)
  ELSE LET via(j) == bkg[j] * word_mass(motif, bkg, n, p + 1,
                                        x - (get_score_i(motif, j, p) - motif.min))
       IN via(0) + via(1) + via(2) + via(3)

\* P(shifted score sum over the first n positions = x), as a fixed-point
\* number
null_pdf(motif, bkg, n, x) == (ONE * word_mass(motif, bkg, n, 0, x)) \div pow8(n)

\* P(shifted score sum over all positions >= k)
null_tail(motif, bkg, kk) ==
  LET mass == [x \in kk..(motif.cdf_size - 1) |->
                 null_pdf(motif, bkg, motif.size, x)]
  IN RangeSum(mass, kk, motif.cdf_size - 1)

\* the buffer after iterations 0..i of the position loop
RECURSIVE pdf_after(_, _, _)
pdf_after(motif, bkg, i) ==
  IF i < 0 THEN [x \in 0..(motif.cdf_size - 1) |-> ONE]
  ELSE Tabulated(fill_cdf_pos(motif, bkg, pdf_after(motif, bkg, i - 1), i))

\* the motifs are complete and args.bkg is final: the scan is about to
\* call fill_cdf
before_fill_cdf == main_pc \in {"header", "print_begin"} /\ exit_code = "none"

\* C28: fill_cdf computes the exact null distribution of the score: after
\* iteration i the buffer holds, on the scores 0..(i+1)*cdf_max the first
\* i+1 positions can reach, the distribution of their shifted score sum;
\* after the last iteration it sums to 1; and the final cdf[k] is
\* P(total score - cdf_offset >= k), non-increasing in k, with cdf[0] = 1.
C28_ExactNullDistribution ==
  before_fill_cdf =>
    \A m \in 1..Len(motifs) :
      LET motif == motifs[m]
          pdf == fill_pdf(motif, args.bkg)
          c == fill_cdf(motif, args.bkg)
      IN /\ \A i \in 0..(motif.size - 1) :
              LET buf == pdf_after(motif, args.bkg, i)
              IN \A x \in 0..((i + 1) * motif.cdf_max) :
                   buf[x] = null_pdf(motif, args.bkg, i + 1, x)
         /\ SumTo(pdf, motif.cdf_size - 1) = ONE
         /\ pdf = pdf_after(motif, args.bkg, motif.size - 1)
         /\ \A kk \in 0..(motif.cdf_size - 1) : c[kk] = null_tail(motif, args.bkg, kk)
         /\ \A kk \in 0..(motif.cdf_size - 2) : c[kk] >= c[kk + 1]
         /\ c[0] = ONE

\* a motif of two positions under the skewed background: after the first
\* iteration the buffer holds the distribution of one position on 0..3 and
\* still the initial 1.0 above
C28_Witness ==
  /\ before_fill_cdf
  /\ args.bkg = BkgSkewed
  /\ \E m \in 1..Len(motifs) :
       /\ motifs[m].size = 2
       /\ motifs[m].cdf_size = 7
       /\ pdf_after(motifs[m], args.bkg, 0)[6] = ONE
       /\ fill_cdf(motifs[m], args.bkg)[6] > 0

(***************************************************************************)
(* C29: the last entry of the CDF                                          *)
(***************************************************************************)
\* the largest total score a window can have: the sum of the column maxima
best_score(motif) == max_min_score(motif, 0, <<0, 0>>)[1]

\* every position has a letter that scores the largest entry of the PWM
every_column_reaches_max(motif) ==
  \A pos \in 0..(motif.size - 1) :
    \E let \in 0..3 : get_score_i(motif, let, pos) = motif.max

\* C29 as stated: for every motif the last CDF entry is strictly positive,
\* the top index is a score some window attains.
C29_LastEntryPositiveAsStated ==
  before_fill_cdf =>
    \A m \in 1..Len(motifs) :
      fill_cdf(motifs[m], args.bkg)[motifs[m].cdf_size - 1] > 0

\* C29, amended: the last CDF entry is positive exactly when every position
\* of the motif has a letter with the largest score of the whole PWM (and
\* that score is not negative); in general the last positive entry is the
\* one of the largest attainable score, the sum of the column maxima, and
\* the entries above it are 0.
C29_LastEntry ==
  before_fill_cdf =>
    \A m \in 1..Len(motifs) :
      LET motif == motifs[m]
          c == fill_cdf(motif, args.bkg)
          top == best_score(motif) - motif.cdf_offset
      IN /\ (c[motif.cdf_size - 1] > 0) <=> every_column_reaches_max(motif)
         /\ top \in 0..(motif.cdf_size - 1)
         /\ c[top] > 0
         /\ \A x \in (top + 1)..(motif.cdf_size - 1) : c[x] = 0

\* a motif whose last CDF entry is 0 and one whose last entry is positive
C29_Witness ==
  /\ before_fill_cdf
  /\ \E m \in 1..Len(motifs) :
       /\ fill_cdf(motifs[m], args.bkg)[motifs[m].cdf_size - 1] = 0
       /\ best_score(motifs[m]) - motifs[m].cdf_offset < motifs[m].cdf_size - 1


(***************************************************************************)
(* C30: shuffle_linear moves whole blocks                                  *)
(***************************************************************************)
\* the aligned blocks of s: block b is the characters b*kk .. b*kk + kk - 1
blocks_of(s, kk) ==
  [b \in 0..((Size(s) \div kk) - 1) |-> [a \in 0..(kk - 1) |-> s[b * kk + a]]]

\* the blocks of s are the blocks of t in some order
blocks_permuted(s, t, kk) ==
  LET bs == blocks_of(s, kk)
      bt == blocks_of(t, kk)
  IN /\ DOMAIN bs = DOMAIN bt
     /\ \A b \in DOMAIN bs :
          Cardinality({c \in DOMAIN bs : bs[c] = bs[b]})
            = Cardinality({c \in DOMAIN bt : bt[c] = bs[b]})

\* the characters behind the last whole block are where they were
tail_in_place(s, t, kk) ==
  \A i \in DOMAIN s : i >= (Size(s) \div kk) * kk => s[i] = t[i]

linear_run == shuf_pc \in {"linear", "done", "crashed"} /\ use_linear /\ k > 1

\* every partner of a step is the start of a later aligned block, and the
\* two blocks swapped lie inside the buffer
LinearStepsInBounds ==
  (linear_run /\ shuf_pc = "linear" /\ loop_i < Size(seq) - 2 * k + 1) =>
    \A j \in linear_partners(loop_i, Size(seq), k) :
      /\ loop_i % k = 0 /\ j % k = 0 /\ j > loop_i
      /\ swap_k_indices(loop_i, j, k) \subseteq 0..(Size(seq) - 1)

\* after every step, and in what is written, the blocks are the input's
\* blocks in some order and the tail has not moved
LinearBlocksMoveWhole ==
  linear_run =>
    /\ shuf_pc # "crashed"
    /\ blocks_permuted(seq, seq_in, k)
    /\ tail_in_place(seq, seq_in, k)
    /\ shuf_pc = "done" => written = seq

\* C30: for size >= 2k, shuffle_linear only permutes the aligned
\* non-overlapping k-character blocks: every block keeps its contents and
\* moves as a unit, the trailing size mod k characters stay in place, and no
\* read or write touches an index outside [0, size).
C30_LinearPermutesBlocks == LinearStepsInBounds /\ LinearBlocksMoveWhole

\* a written linear shuffle of three different blocks, none of them where
\* it was
C30_Witness ==
  /\ shuf_pc = "done" /\ use_linear /\ k = 2
  /\ seq_in = [i \in 0..5 |-> <<"A", "C", "t", "t", "C", "A">>[i + 1]]
  /\ written = [i \in 0..5 |-> <<"t", "t", "C", "A", "A", "C">>[i + 1]]

=============================================================================
